---- MODULE Spec2Model ----
(***************************************************************************)
(* Model of the per-frame simulation engine of neon_dodge.py (class Game   *)
(* and the entity classes it drives).                                      *)
(*                                                                         *)
(* Units.  Time is in milliseconds (dt = clock.tick(FPS) / 1000.0 is a     *)
(* whole number of milliseconds), lengths are in pixels, speeds in pixels  *)
(* per second, unit vectors are scaled by 1000.  Python floats become      *)
(* integers; a product that the code leaves fractional is truncated toward *)
(* zero (Div).  Where the code itself converts a float to an integer       *)
(* (int(cost * 1.4)) the conversion is modelled with the value the         *)
(* double-precision product really has.                                    *)
(*                                                                         *)
(* random.* calls are nondeterministic choices from small sets of values   *)
(* inside the range of the call.  Rendering, the starfield, particles,     *)
(* screen shake and sound playback have no effect on the state modelled    *)
(* here and are left out; the sound handle read in _try_fire is taken to   *)
(* be bound by the audio set-up.  The volumes of the settings menu are     *)
(* left out as well.  The cursor of the menu, self.settings_index, is      *)
(* never assigned: every read of it raises AttributeError, so no command   *)
(* of the menu is carried out and difficulty_idx keeps the value loaded at *)
(* construction.  Positions are values: a bullet created at an enemy's     *)
(* position has a position of its own.                                     *)
(*                                                                         *)
(* step counts the inputs of a scripted session and ev records what the    *)
(* last step did; the program reads neither.                               *)
(***************************************************************************)
EXTENDS Integers, Sequences, FiniteSets, TLC

VARIABLES state, running, terminated, shop_open, t,
          player, enemies, bullets, powerups, orb,
          score, lives, coins, kills, high_score,
          spawn_timer, diff_timer, enemy_speed, max_enemies, enemy_level,
          boss_timer, pu_spawn_timer, buffs, upgrades,
          difficulty_idx, saved, step, ev, run

vars == <<state, running, terminated, shop_open, t,
          player, enemies, bullets, powerups, orb,
          score, lives, coins, kills, high_score,
          spawn_timer, diff_timer, enemy_speed, max_enemies, enemy_level,
          boss_timer, pu_spawn_timer, buffs, upgrades,
          difficulty_idx, saved, step, ev, run>>

(***************************** program constants **************************)
WIDTH == 900
HEIGHT == 600
PLAYER_BASE_SPEED == 320
PLAYER_RADIUS == 20
PLAYER_IFRAMES == 1000
PLAYER_FRICTION == 10
ENEMY_BASE_SPEED == 120
ENEMY_RADIUS == 16
ENEMY_SPAWN_COOLDOWN == 400
ENEMY_MAX == 50
ORB_RADIUS == 8
ORB_SCORE == 10
KILL_SCORE == 5
BOSS_KILL_SCORE == 50
BULLET_RADIUS == 4
BULLET_SPEED == 520
BULLET_LIFETIME == 2000
BULLET_BASE_DMG == 1
FIRE_COOLDOWN == 350
ENEMY_BULLET_SPEED == 300
POWERUP_RADIUS == 12
POWERUP_DURATION == 10000
SHIELD_RECHARGE_RATE == 1
SHIELD_IFRAMES == 200
LIVES_START == 3
COINS_NORMAL_MIN == 1
COINS_NORMAL_MAX == 3
COINS_BOSS_MIN == 15
COINS_BOSS_MAX == 25
XP_KILL == 20
XP_BOSS_KILL == 100
XP_ORB == 5
COST_CEILING == 999
BOSS_TIMER_START == 20000
BOSS_TIMER_SENTINEL == 999000
\* The literals of _try_fire: the least fire timer (0.08 s), the share of the
\* cooldown left under Rapid (0.45) and the pierce of the Pierce buff.
FIRE_TIMER_MIN == 80
RAPID_PERCENT == 45
PIERCE_BUFF == 1

GS_TITLE == "TITLE"
GS_PLAYING == "PLAYING"
GS_GAME_OVER == "GAME_OVER"
GS_SETTINGS == "SETTINGS"
GameStates == {GS_TITLE, GS_PLAYING, GS_GAME_OVER, GS_SETTINGS}

(******************************* utilities ********************************)
Max(a, b) == IF a >= b THEN a ELSE b
Min(a, b) == IF a <= b THEN a ELSE b

\* Quotient truncated toward zero, the integer part of a float quotient.
Div(a, b) == IF a >= 0 THEN a \div b ELSE -((-a) \div b)

clamp(x, lo, hi) == Max(lo, Min(hi, x))

RECURSIVE SqrtSearch(_, _, _)
SqrtSearch(n, lo, hi) ==
    IF lo >= hi THEN lo
    ELSE LET mid == (lo + hi + 1) \div 2
         IN IF mid * mid <= n THEN SqrtSearch(n, mid, hi)
                              ELSE SqrtSearch(n, lo, mid - 1)

\* Integer part of the square root (n < 2^31, so the root is below 46341).
ISqrt(n) == SqrtSearch(n, 0, Min(n, 46340))

V2(x, y) == [x |-> x, y |-> y]
VAdd(a, b) == V2(a.x + b.x, a.y + b.y)
VSub(a, b) == V2(a.x - b.x, a.y - b.y)
LenSq(v) == v.x * v.x + v.y * v.y

\* v.normalize() * s.  Short vectors are measured in hundredths of a pixel
\* so that the eight key directions keep their length.
ScaleBy(v, k, n) == V2(Div(v.x * k, n), Div(v.y * k, n))

NormScale(v, s) ==
    IF LenSq(v) < 10000 THEN ScaleBy(v, s * 100, ISqrt(LenSq(v) * 10000))
                        ELSE ScaleBy(v, s, ISqrt(LenSq(v)))

\* d * k for a unit vector d kept scaled by 1000.
UnitTimes(d, k) == V2(Div(d.x * k, 1000), Div(d.y * k, 1000))

\* vel * dt, dt in milliseconds.
Travel(vel, dt) == V2(Div(vel.x * dt, 1000), Div(vel.y * dt, 1000))

\* cur + (target - cur) * clamp(k * dt, 0, 1)
Lerp(cur, target, f) ==
    V2(cur.x + Div((target.x - cur.x) * f, 1000),
       cur.y + Div((target.y - cur.y) * f, 1000))

Smooth(cur, target, k, dt) == Lerp(cur, target, clamp(k * dt, 0, 1000))

circle_collision(a_pos, a_r, b_pos, b_r) ==
    LenSq(VSub(a_pos, b_pos)) <= (a_r + b_r) * (a_r + b_r)

(******************************** Player **********************************)
NewPlayer ==
    [pos |-> V2(WIDTH \div 2, HEIGHT \div 2), vel |-> V2(0, 0),
     radius |-> PLAYER_RADIUS, base_speed |-> PLAYER_BASE_SPEED,
     speed_mult |-> 10, iframes |-> 0, fire_timer |-> 0,
     fire_cooldown |-> FIRE_COOLDOWN, spread_level |-> 0, pierce |-> 0,
     damage |-> BULLET_BASE_DMG, shield_time |-> 0, has_shield |-> FALSE,
     level |-> 1, xp |-> 0]

\* Player.speed(); speed_mult is kept in tenths (10 or 13).
PlayerSpeed(p) == (p.base_speed * p.speed_mult) \div 10

PlayerClampNone(v, r, hi) == v

\* The two clamp lines of Player.update, one axis at a time.
PlayerClamp(v, r, hi) == clamp(v, r, hi - r)

PlayerMovedAlwaysCharging(p, dt, vel, raw) ==
    [p EXCEPT
          !.vel = vel,
          !.pos = V2(PlayerClamp(raw.x, p.radius, WIDTH),
                     PlayerClamp(raw.y, p.radius, HEIGHT)),
          !.iframes = IF p.iframes > 0 THEN Max(0, p.iframes - dt) ELSE p.iframes,
          !.shield_time = Min(POWERUP_DURATION, p.shield_time + SHIELD_RECHARGE_RATE * dt),
          !.fire_timer = Max(0, p.fire_timer - dt)]

\* The part of Player.update after the velocity vel has been smoothed.
PlayerMoved(p, dt, vel, raw) ==
    [p EXCEPT
          !.vel = vel,
          !.pos = V2(PlayerClamp(raw.x, p.radius, WIDTH),
                     PlayerClamp(raw.y, p.radius, HEIGHT)),
          !.iframes = IF p.iframes > 0 THEN Max(0, p.iframes - dt) ELSE p.iframes,
          !.shield_time =
              IF p.has_shield /\ p.shield_time < POWERUP_DURATION
              THEN Min(POWERUP_DURATION, p.shield_time + SHIELD_RECHARGE_RATE * dt)
              ELSE p.shield_time,
          !.fire_timer = Max(0, p.fire_timer - dt)]

PlayerVel(p, dt, intent) ==
    Smooth(p.vel,
           IF LenSq(intent) > 0 THEN NormScale(intent, PlayerSpeed(p)) ELSE intent,
           PLAYER_FRICTION, dt)

PlayerStep(p, dt, vel) == PlayerMoved(p, dt, vel, VAdd(p.pos, Travel(vel, dt)))

\* Player.update(dt, keys); intent is the (dir_x, dir_y) read from the keys.
PlayerUpdate(p, dt, intent) == PlayerStep(p, dt, PlayerVel(p, dt, intent))

\* Player.gain_xp
RECURSIVE LevelUp(_)
LevelUp(p) ==
    IF p.xp >= 100 * p.level
    THEN LevelUp([p EXCEPT !.xp = p.xp - 100 * p.level, !.level = p.level + 1])
    ELSE p

gain_xp(p, amount) == LevelUp([p EXCEPT !.xp = p.xp + amount])

(******************************** Enemy ***********************************)
ET_NORMAL == "NORMAL"
ET_ZIGZAG == "ZIGZAG"
ET_HOMING == "HOMING"
ET_BOSS == "BOSS"
ET_MEGA_BOSS == "MEGA_BOSS"

\* random.uniform(a, b) for the sample u in 0..1000 (thousandths).
Uniform(a, b, u) == a + Div((b - a) * u, 1000)

\* 1000 * sin(phase), phase in milliradians (Bhaskara's rational form).
SinMilli(phase) ==
    LET ph   == phase % 6283
        x    == IF ph > 3141 THEN ph - 3141 ELSE ph
        p    == x * (3141 - x)
        s    == (16 * p) \div ((49328405 - 4 * p) \div 1000)
    IN IF ph > 3141 THEN -s ELSE s

\* The position and heading drawn for a new enemy, by screen side.
SpawnPos(r) ==
    CASE r.side = "left"  -> V2(-ENEMY_RADIUS,
                                Uniform(ENEMY_RADIUS, HEIGHT - ENEMY_RADIUS, r.u_pos))
      [] r.side = "right" -> V2(WIDTH + ENEMY_RADIUS,
                                Uniform(ENEMY_RADIUS, HEIGHT - ENEMY_RADIUS, r.u_pos))
      [] r.side = "top"   -> V2(Uniform(ENEMY_RADIUS, WIDTH - ENEMY_RADIUS, r.u_pos),
                                -ENEMY_RADIUS)
      [] OTHER            -> V2(Uniform(ENEMY_RADIUS, WIDTH - ENEMY_RADIUS, r.u_pos),
                                HEIGHT + ENEMY_RADIUS)

SpawnDir(r) ==
    CASE r.side = "left"  -> V2(1, 0)
      [] r.side = "right" -> V2(-1, 0)
      [] r.side = "top"   -> V2(0, 1)
      [] OTHER            -> V2(0, -1)

\* speed *= 1.1 for ZIGZAG, speed *= 0.9 for HOMING.
TypeSpeed(etype, speed) ==
    CASE etype = ET_ZIGZAG -> (speed * 11) \div 10
      [] etype = ET_HOMING -> (speed * 9) \div 10
      [] OTHER -> speed

SpawnSpeed(r, espeed, tier) ==
    TypeSpeed(r.etype,
              (((espeed * Uniform(900, 1200, r.u_speed)) \div 1000)
                 * (100 + 15 * tier)) \div 100)

SpawnShootCd(r, tier) ==
    CASE r.etype = ET_ZIGZAG -> 0
      [] r.etype = ET_HOMING -> Uniform(2500, 4000, r.u_cd)
      [] OTHER -> IF tier >= 2 THEN Uniform(2000, 3500, r.u_cd) ELSE 0

\* The Enemy(...) built at the end of Game._spawn_enemy.
NewEnemy(r, pos, dir, speed, tier) ==
    [pos |-> pos, vel |-> V2(dir.x * speed, dir.y * speed), speed |-> speed,
     type |-> r.etype, radius |-> ENEMY_RADIUS, hp |-> 1 + tier,
     is_boss |-> FALSE, tier |-> tier,
     dash_cd |-> IF tier >= 1 THEN Uniform(1500, 3000, r.u_cd) ELSE 0,
     shoot_cd |-> SpawnShootCd(r, tier), boss_kind |-> 0,
     zigzag_phase |-> IF r.etype = ET_ZIGZAG THEN Uniform(0, 6283, r.u_pos) ELSE 0,
     id |-> 0]

\* Game._spawn_enemy.  r holds this frame's random draws.
SpawnEnemy(r, espeed, elevel) ==
    NewEnemy(r, SpawnPos(r), SpawnDir(r),
             SpawnSpeed(r, espeed, r.tier % (elevel + 1)), r.tier % (elevel + 1))

\* Game._spawn_boss; now is self.t.
SpawnBoss(r, espeed, now) ==
    LET pos == V2(Uniform(120, WIDTH - 120, r.u_pos), -40)
        mega == r.boss_kind = 2
        speed == IF mega THEN Max(80, (espeed * 8) \div 10)
                         ELSE Max(90, (espeed * 9) \div 10)
    IN [pos |-> pos, vel |-> V2(0, speed), speed |-> speed,
        type |-> IF mega THEN ET_MEGA_BOSS ELSE ET_BOSS,
        radius |-> IF mega THEN 56 ELSE 34,
        hp |-> IF mega THEN 60 + (now \div 20000) * 10
                       ELSE 24 + (now \div 20000) * 6,
        is_boss |-> TRUE,
        tier |-> IF mega THEN 3 ELSE IF r.boss_kind = 1 THEN 2 ELSE 1,
        dash_cd |-> IF mega THEN 0 ELSE Uniform(1500, 3000, r.u_cd),
        shoot_cd |-> IF mega THEN Uniform(1500, 2500, r.u_cd)
                     ELSE IF r.boss_kind = 1 THEN Uniform(1000, 2000, r.u_cd) ELSE 0,
        boss_kind |-> r.boss_kind, zigzag_phase |-> 0, id |-> 0]

\* desired + jitter of Enemy.update.
EnemySteer(e, to_player, r) ==
    VAdd(IF LenSq(to_player) > 0 THEN NormScale(to_player, e.speed) ELSE V2(0, 0),
         UnitTimes(r.jit, (e.speed * (IF e.is_boss THEN 15 ELSE 25)) \div 100))

\* The velocity after the two wall tests of Enemy.update.
EnemyBounce(e, pos1, vel1) ==
    V2(IF (pos1.x < e.radius /\ vel1.x < 0)
          \/ (pos1.x > WIDTH - e.radius /\ vel1.x > 0)
       THEN -vel1.x ELSE vel1.x,
       IF (pos1.y < e.radius /\ vel1.y < 0)
          \/ (pos1.y > HEIGHT - e.radius /\ vel1.y > 0)
       THEN -vel1.y ELSE vel1.y)

\* The velocity added by a dash.
EnemyDash(e, to_player, dash) ==
    IF dash /\ LenSq(to_player) > 0
    THEN NormScale(to_player, (e.speed * (15 + 5 * e.tier)) \div 10)
    ELSE V2(0, 0)

EnemyMoved(e, dt, r, to_player, vel1, pos1, dash) ==
    [e EXCEPT !.pos = V2(clamp(pos1.x, e.radius, WIDTH - e.radius),
                         clamp(pos1.y, e.radius, HEIGHT - e.radius)),
              !.vel = VAdd(EnemyBounce(e, pos1, vel1), EnemyDash(e, to_player, dash)),
              !.dash_cd = IF e.tier >= 1
                          THEN (IF dash THEN Uniform(1500, 3000, r.u_cd)
                                        ELSE e.dash_cd - dt)
                          ELSE e.dash_cd]

EnemyAdvance(e, dt, r, to_player, vel1) ==
    EnemyMoved(e, dt, r, to_player, vel1, VAdd(e.pos, Travel(vel1, dt)),
               e.tier >= 1 /\ e.dash_cd - dt <= 0)

EnemyChase(e, dt, r, to_player) ==
    EnemyAdvance(e, dt, r, to_player,
                 Smooth(e.vel, EnemySteer(e, to_player, r),
                        IF e.is_boss THEN 2 ELSE 4, dt))

\* Enemy.update(dt, player_pos)
EnemyUpdate(e, dt, ppos, r) == EnemyChase(e, dt, r, VSub(ppos, e.pos))

(******************************** Bullet **********************************)
NewBullet(pos, vel, pierce, dmg, from_enemy, homing) ==
    [pos |-> pos, vel |-> vel, radius |-> BULLET_RADIUS,
     lifetime |-> BULLET_LIFETIME, pierce |-> pierce, dmg |-> dmg,
     from_enemy |-> from_enemy, homing |-> homing,
     pierce0 |-> pierce, struck |-> <<>>]

\* Bullet.alive
BulletAlive(b) ==
    /\ b.lifetime > 0
    /\ -20 <= b.pos.x /\ b.pos.x <= WIDTH + 20
    /\ -20 <= b.pos.y /\ b.pos.y <= HEIGHT + 20

\* The first loop over self.bullets in update_play: homing re-steer, then
\* Bullet.update.
BulletSteer(b, dt, to) ==
    IF b.from_enemy /\ b.homing /\ LenSq(to) > 0
    THEN Smooth(b.vel, NormScale(to, ENEMY_BULLET_SPEED), 4, dt)
    ELSE b.vel

\* Bullet.update
BulletFly(b, dt, vel) ==
    [b EXCEPT !.vel = vel,
              !.pos = VAdd(b.pos, Travel(vel, dt)),
              !.lifetime = b.lifetime - dt]

BulletMove(b, dt, ppos) == BulletFly(b, dt, BulletSteer(b, dt, VSub(ppos, b.pos)))

(************************* observation of one step ************************)
\* ev records what the last step did, for stating properties of single
\* operations; the program does not read it.
EvNone ==
    [op |-> "none", prev |-> "none", key |-> "none", raised |-> FALSE,
     hits |-> 0, hit |-> "none", hitSrc |-> "none", hitDmg |-> 0,
     hitShield0 |-> 0, hitLives0 |-> 0, hitLives1 |-> 0,
     hitShield1 |-> 0, hitIframes1 |-> 0,
     bossSpawned |-> FALSE, bossAliveAtSpawn |-> FALSE,
     blog |-> <<>>, klog |-> <<>>, fired |-> 0, orbs |-> 0, pickups |-> 0,
     buy |-> "none", buyIdx |-> -1, buyCost |-> 0,
     died |-> FALSE, deathScore |-> 0, deathCoins |-> 0, deathKills |-> 0,
     deathEnemies |-> <<>>,
     spawn |-> [made |-> FALSE, boss0 |-> FALSE, timer |-> 0, count0 |-> 0,
                cap0 |-> 0],
     shot |-> [asked |-> FALSE, timer0 |-> 0, enemies0 |-> 0, cooldown |-> 0,
               spread_level |-> 0, pierce |-> 0, damage |-> 0,
               rapid |-> 0, spread |-> 0, pierce_time |-> 0,
               made |-> <<>>, timer1 |-> 0],
     dropped |-> 0]

\* What is remembered of the current run: self.t when it was started, the
\* orbs picked up in it, the longest frame simulated in it, whether a shield
\* has been bought or picked up in it, the enemies spawned in it, the
\* milliseconds of play simulated in it with the shop closed and the bosses
\* spawned in it (ghost).
RunNone ==
    [t0 |-> 0, orbs |-> 0, maxdt |-> 0, shield |-> FALSE, spawned |-> 0,
     play |-> 0, bosses |-> 0]

(******************************* auto-fire ********************************)
HasBoss(es) == \E i \in 1..Len(es) : es[i].is_boss

RECURSIVE NearestIdx(_, _, _, _)
\* min(self.enemies, key=distance): the first enemy at the least distance.
NearestIdx(es, p, i, best) ==
    IF i > Len(es) THEN best
    ELSE NearestIdx(es, p, i + 1,
                    IF LenSq(VSub(es[i].pos, p)) < LenSq(VSub(es[best].pos, p))
                    THEN i ELSE best)

\* Game._nearest_enemy_dir for a non-empty enemy list: a unit vector * 1000.
UnitOr(to, default) == IF LenSq(to) > 0 THEN NormScale(to, 1000) ELSE default

NearestEnemyDir(es, p) == UnitOr(VSub(es[NearestIdx(es, p, 1, 1)].pos, p), V2(1000, 0))

\* aim rotated by an angle given by 1000*cos and 1000*sin, renormalised.
Rotated(aim, c, s) ==
    NormScale(V2(Div(aim.x * c - aim.y * s, 1000),
                 Div(aim.x * s + aim.y * c, 1000)), 1000)

FireDirsOnePair(aim, w) ==
    IF w.buffs.spread > 0 \/ w.player.spread_level > 0
    THEN <<aim, Rotated(aim, 985, 174), Rotated(aim, 985, -174)>>
    ELSE <<aim>>

\* dirs of _try_fire: the aim, and the angles +-10 or +-8 and +-16 degrees.

FireDirs(aim, w) ==
    IF w.buffs.spread > 0 \/ w.player.spread_level > 0
    THEN IF Max(w.player.spread_level, 1) = 1
         THEN <<aim, Rotated(aim, 985, 174), Rotated(aim, 985, -174)>>
         ELSE <<aim, Rotated(aim, 990, 139), Rotated(aim, 990, -139),
                Rotated(aim, 961, 276), Rotated(aim, 961, -276)>>
    ELSE <<aim>>

RearmFireTimerNoFloor(w) ==
    IF w.buffs.rapid > 0 THEN (w.player.fire_cooldown * 45) \div 100
                         ELSE w.player.fire_cooldown

\* max(0.08, cooldown), cooldown being fire_cooldown * 0.45 under Rapid.

RearmFireTimer(w) ==
    Max(80, IF w.buffs.rapid > 0 THEN (w.player.fire_cooldown * 45) \div 100
                                 ELSE w.player.fire_cooldown)

BulletPierceBest(w) ==
    IF w.buffs.pierce > 0 THEN Max(1, w.player.pierce) ELSE w.player.pierce

\* pierce=(1 if self.pierce_time > 0 else self.player.pierce)

BulletPierce(w) == IF w.buffs.pierce > 0 THEN 1 ELSE w.player.pierce

\* One bullet per direction of dirs, and the fire timer re-armed.
Fire(w, dirs) ==
    [w EXCEPT !.player.fire_timer = RearmFireTimer(w),
              !.bullets = w.bullets \o
                 [i \in 1..Len(dirs) |->
                    NewBullet(VAdd(w.player.pos,
                                   UnitTimes(dirs[i], w.player.radius + 6)),
                              UnitTimes(dirs[i], BULLET_SPEED),
                              BulletPierce(w), w.player.damage, FALSE, FALSE)],
              !.ev.fired = Len(dirs)]

\* Game._try_fire
TryFire(w) ==
    IF w.player.fire_timer > 0 \/ Len(w.enemies) = 0 THEN w
    ELSE Fire(w, FireDirs(NearestEnemyDir(w.enemies, w.player.pos), w))

\* What _try_fire found and what it made (ghost): w0 is the session at the
\* call, w1 the session it leaves.
FireLog(w0, w1) ==
    [w1 EXCEPT !.ev.shot =
        [asked |-> TRUE, timer0 |-> w0.player.fire_timer,
         enemies0 |-> Len(w0.enemies), cooldown |-> w0.player.fire_cooldown,
         spread_level |-> w0.player.spread_level, pierce |-> w0.player.pierce,
         damage |-> w0.player.damage, rapid |-> w0.buffs.rapid,
         spread |-> w0.buffs.spread, pierce_time |-> w0.buffs.pierce,
         made |-> SubSeq(w1.bullets, Len(w0.bullets) + 1, Len(w1.bullets)),
         timer1 |-> w1.player.fire_timer]]

\* "# Auto-fire" of update_play.
AutoFire(w) == FireLog(w, TryFire(w))

(***************************** combat resolver ****************************)
\* The shield-or-life arbitration shared by the enemy-bullet branch and the
\* body-contact branch of update_play.
ShieldCharged(p) == p.shield_time > 0

ShieldFull(p) == p.shield_time >= POWERUP_DURATION

TakeHitKeepsPlaying(w) ==
    IF ShieldFull(w.player)
    THEN [w EXCEPT !.player.shield_time = 0,
                   !.player.iframes = SHIELD_IFRAMES]
    ELSE [w EXCEPT !.lives = w.lives - 1,
                   !.player.iframes = PLAYER_IFRAMES]

\* "if self.player.shield_time >= POWERUP_DURATION: ... else: ..."
TakeHit(w) ==
    IF ShieldFull(w.player)
    THEN [w EXCEPT !.player.shield_time = 0,
                   !.player.iframes = SHIELD_IFRAMES]
    ELSE [w EXCEPT !.lives = w.lives - 1,
                   !.player.iframes = PLAYER_IFRAMES,
                   !.state = IF w.lives - 1 <= 0 THEN GS_GAME_OVER ELSE w.state]

\* w1 is w after the hit; the hit and, at a death, the counters as they
\* stood are recorded in ev.
RecordHit(w, w1, src, dmg, dies) ==
    [w1 EXCEPT
          !.ev.hits = w.ev.hits + 1,
          !.ev.hit = IF ShieldFull(w.player) THEN "shield" ELSE "life",
          !.ev.hitSrc = src, !.ev.hitDmg = dmg,
          !.ev.hitShield0 = w.player.shield_time,
          !.ev.hitLives0 = w.lives, !.ev.hitLives1 = w1.lives,
          !.ev.hitShield1 = w1.player.shield_time,
          !.ev.hitIframes1 = w1.player.iframes,
          !.ev.died = w.ev.died \/ dies,
          !.ev.deathScore = IF dies THEN w.score ELSE w.ev.deathScore,
          !.ev.deathCoins = IF dies THEN w.coins ELSE w.ev.deathCoins,
          !.ev.deathKills = IF dies THEN w.kills ELSE w.ev.deathKills,
          !.ev.deathEnemies = IF dies THEN w.enemies ELSE w.ev.deathEnemies]

ApplyHit(w, src, dmg) ==
    RecordHit(w, TakeHit(w), src, dmg,
              ~ShieldFull(w.player) /\ w.lives - 1 <= 0 /\ ~w.ev.died)

\* The indices of seq whose flag is set, in order.
RECURSIVE Keep(_, _, _)
Keep(seq, flags, i) ==
    IF i > Len(seq) THEN <<>>
    ELSE (IF flags[i] THEN <<seq[i]>> ELSE <<>>) \o Keep(seq, flags, i + 1)

\* The fields of the Enemy dataclass, which its == compares: id is the
\* object's identity (its serial number in the run), kept for observation.
EnemyFields(e) == [e EXCEPT !.id = 0]

\* list.remove(e): the first live element equal to e leaves the list.
RECURSIVE FirstEqual(_, _, _, _)
FirstEqual(cur, alive, e, k) ==
    IF k > Len(cur) THEN 0
    ELSE IF alive[k] /\ EnemyFields(cur[k]) = EnemyFields(e) THEN k
    ELSE FirstEqual(cur, alive, e, k + 1)

RemoveDeadBelowZero(cur, alive, e) ==
    LET k == FirstEqual(cur, alive, e, 1)
    IN IF e.hp < 0 /\ k > 0 THEN [alive EXCEPT ![k] = FALSE] ELSE alive

\* "if e.hp <= 0: self.enemies.remove(e)"
RemoveDead(cur, alive, e) ==
    LET k == FirstEqual(cur, alive, e, 1)
    IN IF e.hp <= 0 /\ k > 0 THEN [alive EXCEPT ![k] = FALSE] ELSE alive

KillRewardsAllAlike(a, e, r, now) ==
    [a EXCEPT !.kills = a.kills + 1,
              !.score = a.score + KILL_SCORE,
              !.coins = a.coins + r.coins_normal,
              !.player = gain_xp(a.player, XP_KILL)]

\* Rewards of one kill (the body of "if e.hp <= 0" after the removal).
KillRewards(a, e, r, now) ==
    IF e.is_boss
    THEN [a EXCEPT !.kills = a.kills + 1,
                   !.score = a.score + BOSS_KILL_SCORE,
                   !.coins = a.coins + r.coins_boss,
                   !.player = gain_xp(a.player, XP_BOSS_KILL),
                   !.boss_timer = Max(12000, 28000 - (now \div 20))]
    ELSE [a EXCEPT !.kills = a.kills + 1,
                   !.score = a.score + KILL_SCORE,
                   !.coins = a.coins + r.coins_normal,
                   !.player = gain_xp(a.player, XP_KILL)]

\* "e.hp -= b.dmg; hit_any = True" and the removal: e is enemy j after the
\* damage.
Damage(a, j, e) ==
    [a EXCEPT !.cur[j] = e,
              !.alive = RemoveDead([a.cur EXCEPT ![j] = e], a.alive, e),
              !.hit_any = TRUE, !.nhit = a.nhit + 1,
              !.b.struck = Append(a.b.struck, e.id)]

RewardEveryHit(a, e, r, now) ==
    [KillRewards(a, e, r, now) EXCEPT !.nkill = a.nkill + 1]

Reward(a, e, r, now) ==
    IF e.hp <= 0 THEN [KillRewards(a, e, r, now) EXCEPT !.nkill = a.nkill + 1]
                 ELSE a

StopAtFirstHit(a) == [a EXCEPT !.stop = TRUE]

\* "if b.pierce > 0: b.pierce -= 1; hit_any = False / else: break"
PierceOrStop(a) ==
    IF a.b.pierce > 0 THEN [a EXCEPT !.b.pierce = a.b.pierce - 1, !.hit_any = FALSE]
                      ELSE [a EXCEPT !.stop = TRUE]

\* Experience gained since the start of the run: xp_to_next() is 100 * level.
TotalXp(p) == p.xp + 50 * p.level * (p.level - 1)

\* What one kill did, for ev.klog: a0 is the state before enemy j was hit,
\* a1 the state after the body of "if e.hp <= 0".
KillEntry(a0, a1, j, e, now) ==
    [boss |-> e.is_boss, gone |-> ~a1.alive[j], now |-> now,
     kills0 |-> a0.kills, kills1 |-> a1.kills,
     score0 |-> a0.score, score1 |-> a1.score,
     coins0 |-> a0.coins, coins1 |-> a1.coins,
     xp0 |-> TotalXp(a0.player), xp1 |-> TotalXp(a1.player),
     timer0 |-> a0.boss_timer, timer1 |-> a1.boss_timer]

LogKill(a0, a1, j, e, now) ==
    IF e.hp <= 0
    THEN [a1 EXCEPT !.klog = Append(a1.klog, KillEntry(a0, a1, j, e, now))]
    ELSE a1

HitOne(a, j, e, r, now) ==
    PierceOrStop(LogKill(a, Reward(Damage(a, j, e), e, r, now), j, e, now))

\* The loop "for e in list(self.enemies)" for one player bullet.  a.cur are
\* the enemies of the snapshot with their current hp, a.alive says which are
\* still in self.enemies.
RECURSIVE HitEnemies(_, _, _, _)
HitEnemies(a, j, r, now) ==
    IF j > Len(a.cur) \/ a.stop THEN a
    ELSE IF ~circle_collision(a.b.pos, a.b.radius, a.cur[j].pos, a.cur[j].radius)
    THEN HitEnemies(a, j + 1, r, now)
    ELSE HitEnemies(HitOne(a, j, [a.cur[j] EXCEPT !.hp = a.cur[j].hp - a.b.dmg],
                           r, now),
                    j + 1, r, now)

\* Enemies of es that overlap bullet b.
Overlapping(b, es) ==
    {i \in 1..Len(es) : circle_collision(b.pos, b.radius, es[i].pos, es[i].radius)}

\* What one player bullet did, for ev.blog: a is the result of HitEnemies,
\* ov the enemies the bullet overlapped.
BulletEntry(w, b, a, ov) ==
    [pierce0 |-> b.pierce, overlap |-> Cardinality(ov),
     weak |-> \A i \in ov : w.enemies[i].hp <= b.dmg,
     removed |-> Len(w.enemies) - Len(Keep(a.cur, a.alive, 1)),
     survived |-> ~a.hit_any, pierce1 |-> a.b.pierce,
     made |-> b.pierce0, struck |-> a.b.struck]

BulletOutcome(w, b, a, ov) ==
    [w EXCEPT !.enemies = Keep(a.cur, a.alive, 1),
              !.kills = a.kills, !.score = a.score, !.coins = a.coins,
              !.player = a.player, !.boss_timer = a.boss_timer,
              !.new_bullets = IF a.hit_any THEN w.new_bullets
                              ELSE Append(w.new_bullets, a.b),
              !.ev.blog = IF ov = {} THEN w.ev.blog
                          ELSE Append(w.ev.blog, BulletEntry(w, b, a, ov)),
              !.ev.klog = w.ev.klog \o a.klog]

\* One player bullet against the enemies; the bullet survives unless hit_any.
PlayerBullet(w, b, r, now) ==
    BulletOutcome(w, b,
        HitEnemies([cur |-> w.enemies, alive |-> [i \in 1..Len(w.enemies) |-> TRUE],
                    b |-> b, hit_any |-> FALSE, stop |-> FALSE, nhit |-> 0,
                    nkill |-> 0, klog |-> <<>>, kills |-> w.kills, score |-> w.score,
                    coins |-> w.coins, player |-> w.player,
                    boss_timer |-> w.boss_timer], 1, r, now),
        Overlapping(b, w.enemies))

EnemyBulletThroughIframes(w, b) ==
    IF circle_collision(b.pos, b.radius, w.player.pos, w.player.radius)
    THEN ApplyHit(w, "bullet", b.dmg)
    ELSE [w EXCEPT !.new_bullets = Append(w.new_bullets, b)]

\* One enemy bullet against the player.
EnemyBullet(w, b) ==
    IF w.player.iframes <= 0
       /\ circle_collision(b.pos, b.radius, w.player.pos, w.player.radius)
    THEN ApplyHit(w, "bullet", b.dmg)
    ELSE [w EXCEPT !.new_bullets = Append(w.new_bullets, b)]

\* One bullet of the second loop over self.bullets.
ResolveOne(w, b, r, now) ==
    IF ~BulletAlive(b) THEN w
    ELSE IF b.from_enemy THEN EnemyBullet(w, b)
    ELSE PlayerBullet(w, b, r, now)

\* The second loop over self.bullets in update_play.
RECURSIVE ResolveBullets(_, _, _, _)
ResolveBullets(w, i, r, now) ==
    IF i > Len(w.bullets) THEN [w EXCEPT !.bullets = w.new_bullets,
                                         !.new_bullets = <<>>]
    ELSE ResolveBullets(ResolveOne(w, w.bullets[i], r, now), i + 1, r, now)

(************************* enemies, spawner, pickups ***********************)
\* to.normalize() if to.length_squared() > 0 else V2(0, 1), scaled by 1000.
AimAt(from, ppos) == UnitOr(VSub(ppos, from), V2(0, 1000))

\* V2(cos(i * tau / 8), sin(i * tau / 8)) * 1000 for i = 0..7.
RingDirs ==
    <<V2(1000, 0), V2(707, 707), V2(0, 1000), V2(-707, 707),
      V2(-1000, 0), V2(-707, -707), V2(0, -1000), V2(707, -707)>>

\* The ZIGZAG branch of the enemy loop.  The phase is kept modulo 2*pi.
ZigzagSlide(e, dt, phase, perp) ==
    [e EXCEPT !.zigzag_phase = phase,
              !.pos = IF LenSq(perp) > 0
                      THEN VAdd(e.pos,
                                Travel(UnitTimes(NormScale(perp, 1000),
                                                 Div(SinMilli(phase) * e.speed, 2000)),
                                       dt))
                      ELSE e.pos]

ZigzagStep(e, dt) ==
    ZigzagSlide(e, dt, (e.zigzag_phase + 4 * dt) % 6283, V2(-e.vel.y, e.vel.x))

\* The bullets one enemy adds this frame when its shoot cooldown runs out,
\* dir being the unit vector towards the player.
ShotsAlong(e, dir) ==
    CASE e.type = ET_HOMING ->
           <<NewBullet(VAdd(e.pos, UnitTimes(dir, e.radius + 4)),
                       UnitTimes(dir, (ENEMY_BULLET_SPEED * 8) \div 10),
                       0, 1, TRUE, TRUE)>>
      [] e.type = ET_MEGA_BOSS ->
           [i \in 1..8 |->
              NewBullet(e.pos, UnitTimes(RingDirs[i], (ENEMY_BULLET_SPEED * 6) \div 10),
                        0, 2, TRUE, FALSE)]
           \o <<NewBullet(e.pos, UnitTimes(dir, (ENEMY_BULLET_SPEED * 8) \div 10),
                          0, 2, TRUE, TRUE)>>
      [] OTHER ->
           <<NewBullet(VAdd(e.pos, UnitTimes(dir, e.radius + 4)),
                       UnitTimes(dir, ENEMY_BULLET_SPEED),
                       0, IF e.is_boss THEN 2 ELSE 1, TRUE, FALSE)>>

EnemyShots(e, ppos) == ShotsAlong(e, AimAt(e.pos, ppos))

ShootReroll(e, r) ==
    CASE e.type = ET_HOMING -> Uniform(2000, 3000, r.u_cd)
      [] e.type = ET_MEGA_BOSS -> Uniform(1500, 2500, r.u_cd)
      [] OTHER -> IF e.is_boss THEN Uniform(1000, 2000, r.u_cd)
                               ELSE Uniform(1500, 3000, r.u_cd)

Shoots(e) ==
    \/ e.type \in {ET_HOMING, ET_MEGA_BOSS}
    \/ e.type \in {ET_NORMAL, ET_BOSS} /\ (e.tier >= 2 \/ (e.is_boss /\ e.boss_kind = 1))

EnemyTick(e, dt) == IF e.type = ET_ZIGZAG THEN ZigzagStep(e, dt) ELSE e

Fires(e, dt) == Shoots(e) /\ e.shoot_cd - dt <= 0

Cooled(e, dt, r) ==
    IF Shoots(e)
    THEN [e EXCEPT !.shoot_cd = IF Fires(e, dt) THEN ShootReroll(e, r)
                                                ELSE e.shoot_cd - dt]
    ELSE e

\* Enemy i, moved to e, takes its turn at shooting.
EnemyActs(w, i, e, dt, r) ==
    [w EXCEPT !.enemies[i] = Cooled(e, dt, r),
              !.bullets = IF Fires(e, dt) THEN w.bullets \o EnemyShots(e, w.player.pos)
                                          ELSE w.bullets]

\* The loop "for e in self.enemies" of update_play.
RECURSIVE EnemiesStep(_, _, _, _)
EnemiesStep(w, i, dt, r) ==
    IF i > Len(w.enemies) THEN w
    ELSE EnemiesStep(
           EnemyActs(w, i,
                     EnemyTick(EnemyUpdate(w.enemies[i], dt, w.player.pos, r), dt),
                     dt, r),
           i + 1, dt, r)

\* DIFF_SPAWN_MULT in tenths.
DIFF_SPAWN_MULT == <<15, 10, 7>>

\* A Python list of three entries has the indices -3 .. 2; any other index
\* raises IndexError.
IndexDefined(didx) == didx \in -3 .. 2

\* "DIFF_SPAWN_MULT[self.difficulty_idx]": a negative index counts from the
\* end of the list.
DiffSpawnMult(didx) == DIFF_SPAWN_MULT[IF didx < 0 THEN didx + 4 ELSE didx + 1]

SpawnCooldown(didx, r) ==
    (((ENEMY_SPAWN_COOLDOWN * DiffSpawnMult(didx)) \div 10)
       * Uniform(600, 1200, r.u_spawn)) \div 1000

SpawnGuardIgnoringCap(w, st) == ~HasBoss(w.enemies) /\ st <= 0

\* "if not self._has_boss(): if self.spawn_timer <= 0 and len(self.enemies) <
\* self.max_enemies": st is the spawn timer after "self.spawn_timer -= dt".
SpawnGuard(w, st) ==
    ~HasBoss(w.enemies) /\ st <= 0 /\ Len(w.enemies) < w.max_enemies

\* Where the list has no entry at didx the look-up raises after the enemy has
\* been appended: ev.raised, and the frame ends the program (Frame).
SpawnApply(w, st, r, didx) ==
    IF SpawnGuard(w, st)
    THEN [w EXCEPT !.enemies = Append(w.enemies,
                                      [SpawnEnemy(r, w.enemy_speed, w.enemy_level)
                                          EXCEPT !.id = w.run.spawned + 1]),
                   !.spawn_timer = IF IndexDefined(didx) THEN SpawnCooldown(didx, r)
                                                         ELSE st,
                   !.ev.raised = ~IndexDefined(didx)]
    ELSE [w EXCEPT !.spawn_timer = st]

\* What the spawn logic met and did, for ev.spawn: w0 is the session before
\* it, w1 after it.
SpawnLog(w0, w1, st) ==
    [w1 EXCEPT !.ev.spawn = [made |-> Len(w1.enemies) > Len(w0.enemies),
                             boss0 |-> HasBoss(w0.enemies), timer |-> st,
                             count0 |-> Len(w0.enemies), cap0 |-> w0.max_enemies],
               !.run.spawned = w0.run.spawned + Len(w1.enemies) - Len(w0.enemies)]

\* "Spawn logic" of update_play.
SpawnStep(w, dt, r, didx) ==
    SpawnLog(w, SpawnApply(w, w.spawn_timer - dt, r, didx), w.spawn_timer - dt)

BossSpawnGuardTimerOnly(w, bt) == bt <= 0

\* The condition of the "Boss timer" step.
BossSpawnGuard(w, bt) == bt <= 0 /\ ~HasBoss(w.enemies)

\* "Boss timer" of update_play.
BossStep(w, dt, r, now) ==
    LET bt == w.boss_timer - dt
    IN IF BossSpawnGuard(w, bt)
       THEN [w EXCEPT !.enemies = Append(w.enemies,
                                         [SpawnBoss(r, w.enemy_speed, now)
                                             EXCEPT !.id = w.run.spawned + 1]),
                      !.boss_timer = BOSS_TIMER_SENTINEL,
                      !.ev.bossSpawned = TRUE,
                      !.ev.bossAliveAtSpawn = HasBoss(w.enemies),
                      !.run.spawned = w.run.spawned + 1,
                      !.run.play = w.run.play + dt,
                      !.run.bosses = w.run.bosses + 1]
       ELSE [w EXCEPT !.boss_timer = bt, !.run.play = w.run.play + dt]

DifficultyStepUnbounded(w, dt) ==
    IF w.diff_timer + dt >= 2000
    THEN [w EXCEPT !.diff_timer = 0,
                   !.enemy_speed = w.enemy_speed + 6,
                   !.max_enemies = w.max_enemies + 1]
    ELSE [w EXCEPT !.diff_timer = w.diff_timer + dt]

\* "Difficulty ramp" of update_play.
DifficultyStep(w, dt) ==
    IF w.diff_timer + dt >= 2000
    THEN [w EXCEPT !.diff_timer = 0,
                   !.enemy_speed = Min(w.enemy_speed + 6, 260),
                   !.max_enemies = Min(w.max_enemies + 1, ENEMY_MAX)]
    ELSE [w EXCEPT !.diff_timer = w.diff_timer + dt]

\* Game._spawn_orb
SpawnOrb(r) == [pos |-> V2(Uniform(40, WIDTH - 40, r.u_orb_x),
                           Uniform(40, HEIGHT - 40, r.u_orb_y)),
                radius |-> ORB_RADIUS]

OrbCollectNoXp(w, r) ==
    IF circle_collision(w.player.pos, w.player.radius, w.orb.pos, w.orb.radius)
    THEN [w EXCEPT !.score = w.score + ORB_SCORE,
                   !.orb = SpawnOrb(r),
                   !.ev.orbs = 1, !.run.orbs = w.run.orbs + 1]
    ELSE w

\* "Collisions: orb"
OrbCollect(w, r) ==
    IF circle_collision(w.player.pos, w.player.radius, w.orb.pos, w.orb.radius)
    THEN [w EXCEPT !.score = w.score + ORB_SCORE,
                   !.player = gain_xp(w.player, XP_ORB),
                   !.orb = SpawnOrb(r),
                   !.ev.orbs = 1, !.run.orbs = w.run.orbs + 1]
    ELSE w

\* "Passive score tick": int(20 * dt)
ScoreTick(w, dt) ==
    [w EXCEPT !.score = w.score + ((20 * dt) \div 1000),
              !.run.maxdt = Max(w.run.maxdt, dt)]

OrbStep(w, dt, r) == ScoreTick(OrbCollect(w, r), dt)

RECURSIVE FirstColliding(_, _, _)
FirstColliding(es, p, i) ==
    IF i > Len(es) THEN 0
    ELSE IF circle_collision(p.pos, p.radius, es[i].pos, es[i].radius) THEN i
    ELSE FirstColliding(es, p, i + 1)

BodyStepRamming(w) ==
    IF w.player.iframes <= 0 /\ FirstColliding(w.enemies, w.player, 1) > 0
    THEN [ApplyHit(w, "body", 0) EXCEPT
             !.enemies = SubSeq(w.enemies, 1, FirstColliding(w.enemies, w.player, 1) - 1)
                            \o SubSeq(w.enemies,
                                      FirstColliding(w.enemies, w.player, 1) + 1,
                                      Len(w.enemies))]
    ELSE w

\* "Enemy collision with player": the first overlapping enemy only.
BodyStep(w) ==
    IF w.player.iframes <= 0 /\ FirstColliding(w.enemies, w.player, 1) > 0
    THEN ApplyHit(w, "body", 0)
    ELSE w

PU_RAPID == "RAPID"
PU_SPREAD == "SPREAD"
PU_SHIELD == "SHIELD"
PU_SPEED == "SPEED"
PU_PIERCE == "PIERCE"
PUTypes == {PU_RAPID, PU_SPREAD, PU_SHIELD, PU_SPEED, PU_PIERCE}

\* Game.apply_powerup
apply_powerup(w, kind) ==
    CASE kind = PU_RAPID  -> [w EXCEPT !.buffs.rapid = POWERUP_DURATION]
      [] kind = PU_SPREAD -> [w EXCEPT !.buffs.spread = POWERUP_DURATION]
      [] kind = PU_SHIELD -> [w EXCEPT !.player.has_shield = TRUE,
                                       !.player.shield_time = POWERUP_DURATION,
                                       !.run.shield = TRUE]
      [] kind = PU_SPEED  -> [w EXCEPT !.buffs.speed = POWERUP_DURATION]
      [] OTHER            -> [w EXCEPT !.buffs.pierce = POWERUP_DURATION]

RECURSIVE Pickups(_, _, _)
\* "for pu in list(self.powerups)": every overlapping power-up is applied
\* and removed.
Pickups(w, pus, i) ==
    IF i > Len(pus) THEN w
    ELSE IF circle_collision(w.player.pos, w.player.radius, pus[i].pos, POWERUP_RADIUS)
    THEN Pickups([apply_powerup(w, pus[i].kind)
                    EXCEPT !.ev.pickups = w.ev.pickups + 1], pus, i + 1)
    ELSE Pickups([w EXCEPT !.powerups = Append(w.powerups, pus[i])], pus, i + 1)

\* "Power-up spawning"
PowerUpSpawn(w, dt, r) ==
    IF w.pu_spawn_timer - dt <= 0
    THEN [w EXCEPT !.powerups =
                      Append(w.powerups,
                             [pos |-> V2(Uniform(60, WIDTH - 60, r.u_pu_x),
                                         Uniform(60, HEIGHT - 60, r.u_pu_y)),
                              kind |-> r.pu_kind, radius |-> POWERUP_RADIUS]),
                   !.pu_spawn_timer = Uniform(10000, 16000, r.u_spawn)]
    ELSE [w EXCEPT !.pu_spawn_timer = w.pu_spawn_timer - dt]

PickupAll(w) == Pickups([w EXCEPT !.powerups = <<>>], w.powerups, 1)

\* "Tick effect timers"
TickBuffs(w, dt) ==
    [w EXCEPT !.buffs = [rapid  |-> Max(0, w.buffs.rapid - dt),
                         speed  |-> Max(0, w.buffs.speed - dt),
                         spread |-> Max(0, w.buffs.spread - dt),
                         pierce |-> Max(0, w.buffs.pierce - dt)],
              !.player.speed_mult = IF Max(0, w.buffs.speed - dt) > 0 THEN 13 ELSE 10]

\* "Power-up spawning and pickups" and "Tick effect timers".
PowerUpStep(w, dt, r) == TickBuffs(PickupAll(PowerUpSpawn(w, dt, r)), dt)

(******************************* one frame ********************************)
RECURSIVE MoveAll(_, _, _, _)
MoveAll(bs, i, dt, ppos) ==
    IF i > Len(bs) THEN <<>>
    ELSE <<BulletMove(bs[i], dt, ppos)>> \o MoveAll(bs, i + 1, dt, ppos)

MoveBullets(w, dt) ==
    [w EXCEPT !.bullets = MoveAll(w.bullets, 1, dt, w.player.pos)]

\* Then(v, F) is F(v): it names the value an earlier statement leaves for
\* the statements after it.
Then(v, F(_)) == F(v)

\* Game.update_play(dt) after the shop test.
Simulate(w, dt, r, now, didx) ==
    Then(AutoFire([w EXCEPT !.enemy_level = Min(2, now \div 30000)]), LAMBDA w2 :
    Then(MoveBullets(w2, dt),                LAMBDA w3 :
    Then(ResolveBullets(w3, 1, r, now),      LAMBDA w4 :
    Then(EnemiesStep(w4, 1, dt, r),          LAMBDA w5 :
    Then(SpawnStep(w5, dt, r, didx),         LAMBDA w6 :
    Then(BossStep(w6, dt, r, now),           LAMBDA w7 :
    Then(DifficultyStep(w7, dt),             LAMBDA w8 :
    Then(OrbStep(w8, dt, r),                 LAMBDA w9 :
    Then(BodyStep(w9),                       LAMBDA w10 :
    PowerUpStep(w10, dt, r))))))))))

UpdatePlayThroughShop(w, dt, intent, r, now, didx) ==
    Simulate([w EXCEPT !.player = PlayerUpdate(w.player, dt, intent)],
             dt, r, now, didx)

\* Game.update_play(dt).  now is self.t, didx is self.difficulty_idx.
UpdatePlay(w, dt, intent, r, now, didx) ==
    IF w.shop_open
    THEN [w EXCEPT !.player = PlayerUpdate(w.player, dt, intent)]
    ELSE Simulate([w EXCEPT !.player = PlayerUpdate(w.player, dt, intent)],
                  dt, r, now, didx)

\* The session fields one frame of play reads and writes.
World(op) ==
    [state |-> state, shop_open |-> shop_open, player |-> player,
     enemies |-> enemies, bullets |-> bullets, new_bullets |-> <<>>,
     powerups |-> powerups, orb |-> orb, score |-> score, lives |-> lives,
     coins |-> coins, kills |-> kills, spawn_timer |-> spawn_timer,
     diff_timer |-> diff_timer, enemy_speed |-> enemy_speed,
     max_enemies |-> max_enemies, enemy_level |-> enemy_level,
     boss_timer |-> boss_timer, pu_spawn_timer |-> pu_spawn_timer,
     buffs |-> buffs, ev |-> [EvNone EXCEPT !.op = op, !.prev = state],
     run |-> run, clock |-> t]

Commit(w) ==
    /\ state' = w.state
    /\ shop_open' = w.shop_open
    /\ player' = w.player
    /\ enemies' = w.enemies
    /\ bullets' = w.bullets
    /\ powerups' = w.powerups
    /\ orb' = w.orb
    /\ score' = w.score
    /\ lives' = w.lives
    /\ coins' = w.coins
    /\ kills' = w.kills
    /\ spawn_timer' = w.spawn_timer
    /\ diff_timer' = w.diff_timer
    /\ enemy_speed' = w.enemy_speed
    /\ max_enemies' = w.max_enemies
    /\ enemy_level' = w.enemy_level
    /\ boss_timer' = w.boss_timer
    /\ pu_spawn_timer' = w.pu_spawn_timer
    /\ buffs' = w.buffs
    /\ ev' = w.ev
    /\ run' = w.run

ResetKeepingEnemies(w, r) ==
    [w EXCEPT !.player = NewPlayer, !.orb = SpawnOrb(r),
              !.score = 0, !.lives = LIVES_START, !.spawn_timer = 0,
              !.diff_timer = 0, !.enemy_speed = ENEMY_BASE_SPEED,
              !.max_enemies = 3, !.enemy_level = 0, !.bullets = <<>>,
              !.powerups = <<>>,
              !.pu_spawn_timer = Uniform(10000, 16000, r.u_spawn),
              !.buffs = [rapid |-> 0, speed |-> 0, spread |-> 0, pierce |-> 0],
              !.coins = 0, !.kills = 0, !.shop_open = FALSE,
              !.boss_timer = BOSS_TIMER_START,
              !.run = [RunNone EXCEPT !.t0 = w.clock],
              !.ev.dropped = w.score]

\* Game.reset
Reset(w, r) ==
    [w EXCEPT !.player = NewPlayer, !.enemies = <<>>, !.orb = SpawnOrb(r),
              !.score = 0, !.lives = LIVES_START, !.spawn_timer = 0,
              !.diff_timer = 0, !.enemy_speed = ENEMY_BASE_SPEED,
              !.max_enemies = 3, !.enemy_level = 0, !.bullets = <<>>,
              !.powerups = <<>>,
              !.pu_spawn_timer = Uniform(10000, 16000, r.u_spawn),
              !.buffs = [rapid |-> 0, speed |-> 0, spread |-> 0, pierce |-> 0],
              !.coins = 0, !.kills = 0, !.shop_open = FALSE,
              !.boss_timer = BOSS_TIMER_START,
              !.run = [RunNone EXCEPT !.t0 = w.clock],
              !.ev.dropped = w.score]

(********************************* shop ***********************************)
\* Costs c < 1000 for which the double-precision product c * 1.4 lies just
\* below the whole number c * 7 / 5, so that int() yields one less.
FloatBelow(c) ==
    c % 5 = 0 /\ (c \in {45, 85, 90} \/ (165 <= c /\ c <= 180)
                  \/ (325 <= c /\ c <= 365) \/ (645 <= c /\ c <= 730))

InflateCostExact(cost) == (cost * 14) \div 10 + 1

\* Game._inflate_cost: int(cost * 1.4) + 1
InflateCost(cost) ==
    (IF FloatBelow(cost) THEN (cost * 14) \div 10 - 1 ELSE (cost * 14) \div 10) + 1

\* The six "fn" callbacks of the upgrades table, by index 0..5.
BuyEffectUncapped(p, idx) ==
    CASE idx = 0 -> [p EXCEPT !.damage = p.damage + 1]
      [] idx = 1 -> [p EXCEPT !.fire_cooldown = Max(80, (p.fire_cooldown * 9) \div 10)]
      [] idx = 2 -> [p EXCEPT !.base_speed = (p.base_speed * 11) \div 10]
      [] idx = 3 -> [p EXCEPT !.spread_level = p.spread_level + 1]
      [] idx = 4 -> [p EXCEPT !.pierce = p.pierce + 1]
      [] OTHER   -> [p EXCEPT !.has_shield = TRUE, !.shield_time = POWERUP_DURATION]

BuyEffect(p, idx) ==
    CASE idx = 0 -> [p EXCEPT !.damage = p.damage + 1]
      [] idx = 1 -> [p EXCEPT !.fire_cooldown = Max(80, (p.fire_cooldown * 9) \div 10)]
      [] idx = 2 -> [p EXCEPT !.base_speed = (p.base_speed * 11) \div 10]
      [] idx = 3 -> IF p.spread_level < 2
                    THEN [p EXCEPT !.spread_level = p.spread_level + 1] ELSE p
      [] idx = 4 -> IF p.pierce < 3 THEN [p EXCEPT !.pierce = p.pierce + 1] ELSE p
      [] OTHER   -> [p EXCEPT !.has_shield = TRUE, !.shield_time = POWERUP_DURATION]

CanBuyAlways(idx, ups, wallet) == 0 <= idx /\ idx < Len(ups)

\* The two conditions of Game._buy_if_can.
CanBuy(idx, ups, wallet) == 0 <= idx /\ idx < Len(ups) /\ wallet >= ups[idx + 1]

BuyIfCanUncapped(c, idx) ==
    IF CanBuy(idx, c.upgrades, c.coins)
    THEN [coins |-> c.coins - c.upgrades[idx + 1],
          player |-> BuyEffect(c.player, idx),
          upgrades |-> [c.upgrades EXCEPT
                          ![idx + 1] = InflateCost(c.upgrades[idx + 1])]]
    ELSE c

\* Game._buy_if_can(idx); c is [coins, player, upgrades].
BuyIfCan(c, idx) ==
    IF CanBuy(idx, c.upgrades, c.coins)
    THEN [coins |-> c.coins - c.upgrades[idx + 1],
          player |-> BuyEffect(c.player, idx),
          upgrades |-> [c.upgrades EXCEPT
                          ![idx + 1] = Min(COST_CEILING, InflateCost(c.upgrades[idx + 1]))]]
    ELSE c

(********************************* inputs *********************************)
Keys == {"ESC", "SPACE", "s", "p", "b", "r", "1", "2", "3", "4", "5", "6", "7"}

\* The "idx" dictionary of Game.run; -1 for a key that is not in it.
KeyIndex(k) ==
    CASE k = "1" -> 0 [] k = "2" -> 1 [] k = "3" -> 2
      [] k = "4" -> 3 [] k = "5" -> 4 [] k = "6" -> 5 [] OTHER -> -1

\* One outcome of every random call a step can make.
BaseDraw ==
    [jit |-> V2(0, 0), side |-> "left", u_pos |-> 500, u_speed |-> 334,
     tier |-> 0, etype |-> ET_NORMAL, u_cd |-> 0, boss_kind |-> 0,
     coins_normal |-> COINS_NORMAL_MIN, coins_boss |-> COINS_BOSS_MIN,
     u_orb_x |-> 750, u_orb_y |-> 500, pu_kind |-> PU_SHIELD,
     u_pu_x |-> 500, u_pu_y |-> 500, u_spawn |-> 0]

(******************************** actions *********************************)
\* The record at SAVE_PATH.  exists: SAVE_PATH.exists(); parses: json.loads
\* accepts the text and gives an object whose values int() and float()
\* accept; high_score and difficulty: the decimal digits of the two whole
\* numbers, <<>> where the object has no such key; negative: the difficulty
\* is written with a minus sign.
\* No record has been written yet: SAVE_PATH.exists() is false.
NoSave ==
    [exists |-> FALSE, parses |-> FALSE, high_score |-> <<>>, difficulty |-> <<>>,
     negative |-> FALSE]

\* Game._load_save with no save file, then the rest of Game.__init__.
Init ==
    /\ state = GS_TITLE
    /\ running = TRUE
    /\ terminated = FALSE
    /\ shop_open = FALSE
    /\ t = 0
    /\ step = 0
    /\ player = NewPlayer
    /\ enemies = <<>>
    /\ bullets = <<>>
    /\ powerups = <<>>
    /\ orb = SpawnOrb(BaseDraw)
    /\ score = 0
    /\ lives = LIVES_START
    /\ coins = 0
    /\ kills = 0
    /\ high_score = 0
    /\ spawn_timer = 0
    /\ diff_timer = 0
    /\ enemy_speed = ENEMY_BASE_SPEED
    /\ max_enemies = 3
    /\ enemy_level = 0
    /\ boss_timer = BOSS_TIMER_START
    /\ pu_spawn_timer = Uniform(10000, 16000, BaseDraw.u_spawn)
    /\ buffs = [rapid |-> 0, speed |-> 0, spread |-> 0, pierce |-> 0]
    /\ upgrades = <<25, 30, 30, 40, 45, 25>>
    /\ difficulty_idx = 1
    /\ saved = NoSave
    /\ ev = EvNone
    /\ run = RunNone

\* json.dumps of a whole number: its decimal digits.
RECURSIVE Dumps(_)
Dumps(n) == IF n < 10 THEN <<n>> ELSE Append(Dumps(n \div 10), n % 10)

\* int(json.loads(...)) of a digit string.
RECURSIVE LoadsFrom(_, _, _)
LoadsFrom(ds, i, acc) ==
    IF i > Len(ds) THEN acc ELSE LoadsFrom(ds, i + 1, 10 * acc + ds[i])

Loads(ds) == LoadsFrom(ds, 1, 0)

\* "int(data.get(key, default))": ds is what the object holds under the key.
GetInt(ds, default) == IF ds = <<>> THEN default ELSE Loads(ds)

\* The except branch and the else branch of Game._load_save.
LoadDefaults == [high_score |-> 0, difficulty_idx |-> 1]

\* Game._load_save: the high score and the difficulty index it leaves.
LoadSave(rec) ==
    IF rec.exists /\ rec.parses
    THEN [high_score |-> GetInt(rec.high_score, 0),
          difficulty_idx |-> IF rec.negative THEN -GetInt(rec.difficulty, 1)
                                             ELSE GetInt(rec.difficulty, 1)]
    ELSE LoadDefaults

SaveBeforeUpdate(hs) ==
    [exists |-> TRUE, parses |-> TRUE, high_score |-> Dumps(high_score),
     difficulty |-> Dumps(IF difficulty_idx < 0 THEN -difficulty_idx
                                                ELSE difficulty_idx),
     negative |-> difficulty_idx < 0]

\* Game._save: hs is self.high_score at the call.
Save(hs) ==
    [exists |-> TRUE, parses |-> TRUE, high_score |-> Dumps(hs),
     difficulty |-> Dumps(IF difficulty_idx < 0 THEN -difficulty_idx
                                                ELSE difficulty_idx),
     negative |-> difficulty_idx < 0]

Pause(w, k) == IF k = "p" THEN [w EXCEPT !.state = GS_TITLE] ELSE w

ToggleShop(w, k) == IF k = "b" THEN [w EXCEPT !.shop_open = ~w.shop_open] ELSE w

Purse(w) == [coins |-> w.coins, player |-> w.player, upgrades |-> upgrades]

\* c is the purse after the key: what the purchase changed goes back into
\* the session, and ev records whether a purchase was tried and made.
ShopResult(w, k, try, c) ==
    [w |-> [w EXCEPT !.coins = c.coins, !.player = c.player,
                     !.ev.buy = IF try THEN (IF c = Purse(w) THEN "denied" ELSE "ok")
                                ELSE IF w.shop_open /\ k = "7" THEN "unmapped"
                                ELSE "none",
                     !.ev.buyIdx = IF try THEN KeyIndex(k) ELSE -1,
                     !.ev.buyCost = IF try THEN upgrades[KeyIndex(k) + 1] ELSE 0,
                     !.run.shield = w.run.shield
                                       \/ (try /\ KeyIndex(k) = 5 /\ c # Purse(w))],
     ups |-> c.upgrades]

\* "if self.shop_open: if event.key in (K_1 .. K_6): self._buy_if_can(idx)"
ShopKey(w, k) ==
    ShopResult(w, k, w.shop_open /\ KeyIndex(k) >= 0,
               IF w.shop_open /\ KeyIndex(k) >= 0 THEN BuyIfCan(Purse(w), KeyIndex(k))
                                                  ELSE Purse(w))

Restart(res, k, r) == IF k = "r" THEN [res EXCEPT !.w = Reset(res.w, r)] ELSE res

\* The PLAYING branch of the KEYDOWN handling in Game.run.
KeyPlaying(w, k, r) == Restart(ShopKey(ToggleShop(Pause(w, k), k), k), k, r)

KeyByModeResuming(w, k, r) ==
    CASE w.state = GS_TITLE ->
           [w |-> IF k = "SPACE" THEN [w EXCEPT !.state = GS_PLAYING]
                  ELSE IF k = "s" THEN [w EXCEPT !.state = GS_SETTINGS]
                  ELSE w,
            ups |-> upgrades]
      [] w.state = GS_PLAYING -> KeyPlaying(w, k, r)
      [] w.state = GS_GAME_OVER ->
           [w |-> IF k = "r" THEN [Reset(w, r) EXCEPT !.state = GS_PLAYING] ELSE w,
            ups |-> upgrades]
      [] OTHER -> [w |-> w, ups |-> upgrades]

\* The branch of the KEYDOWN handling for the mode st, w being the session
\* after the ESC handling.
KeyByMode(w, k, r) ==
    CASE w.state = GS_TITLE ->
           [w |-> IF k = "SPACE" THEN [Reset(w, r) EXCEPT !.state = GS_PLAYING]
                  ELSE IF k = "s" THEN [w EXCEPT !.state = GS_SETTINGS]
                  ELSE w,
            ups |-> upgrades]
      [] w.state = GS_PLAYING -> KeyPlaying(w, k, r)
      [] w.state = GS_GAME_OVER ->
           [w |-> IF k = "r" THEN [Reset(w, r) EXCEPT !.state = GS_PLAYING] ELSE w,
            ups |-> upgrades]
      [] OTHER -> [w |-> w, ups |-> upgrades]

EscBackFromAnyMode(k) == k = "ESC"

\* "if event.key == pygame.K_ESCAPE: if self.state == GameState.SETTINGS"
EscBack(k) == k = "ESC" /\ state = GS_SETTINGS

\* One KEYDOWN event of the event loop of Game.run.
KeyDown(k, r) ==
    /\ ~terminated
    /\ \E res \in {KeyByMode([World("key") EXCEPT
                                !.state = IF EscBack(k) THEN GS_TITLE ELSE state,
                                !.ev.key = k],
                             k, r)} :
          /\ Commit(res.w)
          /\ upgrades' = res.ups
    /\ running' = IF k = "ESC" /\ ~EscBack(k) THEN FALSE ELSE running
    /\ saved' = IF EscBack(k) THEN Save(high_score) ELSE saved
    /\ UNCHANGED <<terminated, t, high_score, difficulty_idx>>

\* A pygame.QUIT event.
QuitEvent ==
    /\ ~terminated
    /\ running' = FALSE
    /\ ev' = [EvNone EXCEPT !.op = "quit", !.prev = state]
    /\ UNCHANGED <<state, terminated, shop_open, t, player, enemies, bullets,
                   powerups, orb, score, lives, coins, kills, high_score,
                   spawn_timer, diff_timer, enemy_speed, max_enemies, enemy_level,
                   boss_timer, pu_spawn_timer, buffs, upgrades, difficulty_idx,
                   saved, run>>

\* The mode dispatch of Game.run: the session after the update and the
\* drawing of the current mode.
UpdateMode(dt, intent, r) ==
    IF state = GS_PLAYING
    THEN UpdatePlay(World("frame"), dt, intent, r, t + dt, difficulty_idx)
    ELSE IF state = GS_SETTINGS
    THEN [World("frame") EXCEPT !.ev.raised = TRUE]
    ELSE World("frame")

\* The rest of one iteration of the loop of Game.run: self.t += dt, the
\* update of the current mode, and the loop test.
\* An exception that update_play, update_settings or draw_settings raises
\* is caught nowhere: it leaves Game.run and the program ends (ev.raised).
\* self.settings_index is assigned nowhere before update_settings (lines
\* 629-642) and draw_settings (line 954) read it, so an iteration that
\* reaches the mode dispatch in Settings raises AttributeError.
Frame(dt, intent, r) ==
    /\ ~terminated
    /\ t' = t + dt
    /\ \E res \in {UpdateMode(dt, intent, r)} :
          /\ Commit(IF res.ev.raised THEN [World("frame") EXCEPT !.ev.raised = TRUE]
                                     ELSE res)
          /\ terminated' = (res.ev.raised \/ ~running)
    /\ IF state = GS_GAME_OVER /\ score > high_score
       THEN high_score' = score /\ saved' = Save(score)
       ELSE UNCHANGED <<high_score, saved>>
    /\ UNCHANGED <<running, upgrades, difficulty_idx>>

\* The program is started again after it has ended: Game.__init__ with the
\* record that Game._load_save finds.
Startup ==
    /\ terminated
    /\ state' = GS_TITLE
    /\ running' = TRUE
    /\ terminated' = FALSE
    /\ shop_open' = FALSE
    /\ t' = 0
    /\ player' = NewPlayer
    /\ enemies' = <<>>
    /\ bullets' = <<>>
    /\ powerups' = <<>>
    /\ orb' = SpawnOrb(BaseDraw)
    /\ score' = 0
    /\ lives' = LIVES_START
    /\ coins' = 0
    /\ kills' = 0
    /\ high_score' = LoadSave(saved).high_score
    /\ spawn_timer' = 0
    /\ diff_timer' = 0
    /\ enemy_speed' = ENEMY_BASE_SPEED
    /\ max_enemies' = 3
    /\ enemy_level' = 0
    /\ boss_timer' = BOSS_TIMER_START
    /\ pu_spawn_timer' = Uniform(10000, 16000, BaseDraw.u_spawn)
    /\ buffs' = [rapid |-> 0, speed |-> 0, spread |-> 0, pierce |-> 0]
    /\ upgrades' = <<25, 30, 30, 40, 45, 25>>
    /\ difficulty_idx' = LoadSave(saved).difficulty_idx
    /\ ev' = [EvNone EXCEPT !.op = "startup", !.prev = state]
    /\ run' = RunNone
    /\ UNCHANGED saved

\* A script names, for every step of a session, the inputs that may arrive:
\* a set of keys and the frame times, movement intents and random outcomes
\* of a frame.
NoInput == [keys |-> {}, dts |-> {}, intents |-> {}, draws |-> {BaseDraw}]
KeyStep(ks) == [NoInput EXCEPT !.keys = ks]
FrameStep(dts, intents, draws) ==
    [NoInput EXCEPT !.dts = dts, !.intents = intents, !.draws = draws]

\* One step of a session that follows the script entry p.
ScriptedKey(p) ==
    /\ \E k \in p.keys, r \in p.draws : KeyDown(k, r)
    /\ step' = step + 1

ScriptedFrame(p) ==
    /\ \E dt \in p.dts, i \in p.intents, r \in p.draws : Frame(dt, i, r)
    /\ step' = step + 1

(***************************** movement runs ******************************)
\* Frames of free movement after the start of a run.
MaxMoveSteps == 4

MoveIntents == {V2(0, 0), V2(1, 0), V2(-1, 0), V2(0, 1), V2(1, -1)}

\* Start a run, then move freely (the shop may be opened and closed) with
\* short and long frames.
PlanMove(i) ==
    IF i = 0 THEN KeyStep({"SPACE"})
    ELSE IF i <= MaxMoveSteps
    THEN [keys |-> {"b"}, dts |-> {50, 850},
          intents |-> MoveIntents, draws |-> {BaseDraw}]
    ELSE NoInput

NextMove == ScriptedKey(PlanMove(step)) \/ ScriptedFrame(PlanMove(step))

SpecMove == Init /\ [][NextMove]_vars

\* C1: in every state the player's position lies in
\* [radius, WIDTH - radius] x [radius, HEIGHT - radius].
PlayerInArena ==
    /\ player.radius <= player.pos.x /\ player.pos.x <= WIDTH - player.radius
    /\ player.radius <= player.pos.y /\ player.pos.y <= HEIGHT - player.radius

\* A frame of play has pushed the player against the right wall with the
\* shop open, the velocity still pointing into the wall.
PlayerHeldAtWall ==
    /\ ev.op = "frame" /\ state = GS_PLAYING /\ shop_open
    /\ player.pos.x = WIDTH - player.radius /\ player.vel.x > 0

(******************************* boss runs ********************************)
\* Frames of a run in which the boss countdown runs out.
MaxBossSteps == 6

\* The three boss kinds of random.choice([0, 1, 2]).
BossDraws == {[BaseDraw EXCEPT !.boss_kind = k] : k \in {0, 1, 2}}

\* Start a run, then stand still through frames of ten seconds and frames
\* long enough to use up the countdown a boss spawn leaves behind.
PlanBoss(i) ==
    IF i = 0 THEN KeyStep({"SPACE"})
    ELSE IF i <= MaxBossSteps
    THEN FrameStep({10000, 500000}, {V2(0, 0)}, BossDraws)
    ELSE NoInput

NextBoss == ScriptedKey(PlanBoss(step)) \/ ScriptedFrame(PlanBoss(step))

SpecBoss == Init /\ [][NextBoss]_vars

\* C2: at most one enemy with is_boss is alive in any state, and the boss
\* step of a frame has spawned a boss only when none was alive.
BossIsUnique ==
    /\ Cardinality({i \in 1..Len(enemies) : enemies[i].is_boss}) <= 1
    /\ ev.bossSpawned => ~ev.bossAliveAtSpawn

\* A frame has run the countdown down to zero or below while a boss was
\* alive, and has spawned none.
BossOutlivesCountdown ==
    /\ ev.op = "frame" /\ state = GS_PLAYING
    /\ HasBoss(enemies) /\ boss_timer <= 0 /\ ~ev.bossSpawned

(******************************* fight runs *******************************)
\* Frames of one fight.
MaxFightSteps == 80

\* A frame's random outcomes in a fight: the power-up kind, the shooting boss
\* (kind 1) and the point u of the ranges the cooldowns are drawn from.
FightDraw(pu, u) == [BaseDraw EXCEPT !.pu_kind = pu, !.boss_kind = 1, !.u_cd = u]

\* Start a run and stand still at the centre: the first power-up (pierce or
\* shield) appears under the player after ten seconds, enemies walk in from
\* the left on the player's line and a bullet is fired through them.  After
\* twenty seconds the shooting boss arrives; the player picks up a shield or
\* a second pierce, retreats into the lower right corner and stays there in
\* frames of 100 ms.
PlanFight(i) ==
    CASE i = 0 -> KeyStep({"SPACE"})
      [] i = 1 -> FrameStep({9750}, {V2(0, 0)}, {FightDraw(PU_PIERCE, 0)})
      [] i = 2 -> FrameStep({250}, {V2(0, 0)},
                            {FightDraw(PU_PIERCE, 0), FightDraw(PU_SHIELD, 0)})
      [] i = 3 -> FrameStep({780, 810}, {V2(0, 0)}, {FightDraw(PU_PIERCE, 0)})
      [] i = 4 -> FrameStep({9190}, {V2(0, 0)},
                            {FightDraw(PU_SHIELD, 0), FightDraw(PU_PIERCE, 0)})
      [] i > 4 /\ i <= MaxFightSteps ->
           FrameStep({100}, {V2(1, 1)},
                     {FightDraw(PU_SHIELD, 0), FightDraw(PU_SHIELD, 1000)})
      [] OTHER -> NoInput

NextFight == ScriptedKey(PlanFight(step)) \/ ScriptedFrame(PlanFight(step))

SpecFight == Init /\ [][NextFight]_vars

\* C3: every enemy of the live collection has hp >= 1 in every state: it is
\* spawned so, and a bullet's damage that brings it to 0 or below removes it
\* within the same step.
LiveEnemiesHaveHp == \A i \in 1..Len(enemies) : enemies[i].hp >= 1

\* A frame in which a player bullet has destroyed one enemy and another
\* enemy is still alive.
EnemyShotDead ==
    /\ ev.op = "frame" /\ Len(enemies) >= 1
    /\ \E k \in 1..Len(ev.blog) : ev.blog[k].removed >= 1

\* C4: a hit on the player, by a bullet or by a body, with the shield fully
\* charged empties the shield, leaves the lives alone and sets iframes to
\* 0.2 s; any other hit takes exactly one life and sets iframes to
\* PLAYER_IFRAMES, whatever damage the bullet carries.
HitTakesShieldOrOneLife ==
    ev.hits > 0 =>
       /\ lives = ev.hitLives1 /\ player.iframes = ev.hitIframes1
       /\ IF ev.hitShield0 >= POWERUP_DURATION
          THEN /\ ev.hitShield1 = 0
               /\ ev.hitLives1 = ev.hitLives0
               /\ ev.hitIframes1 = SHIELD_IFRAMES
          ELSE /\ ev.hitLives1 = ev.hitLives0 - 1
               /\ ev.hitIframes1 = PLAYER_IFRAMES

\* A boss bullet of damage 2 has hit the player while the shield was partly
\* charged.
HeavyBulletTakesOneLife ==
    /\ ev.hits > 0 /\ ev.hitSrc = "bullet" /\ ev.hitDmg = 2
    /\ 0 < ev.hitShield0 /\ ev.hitShield0 < POWERUP_DURATION

\* C5: within one frame, a player bullet of pierce N whose overlapping
\* enemies all have hp <= its damage removes N + 1 of them and leaves the
\* bullet list when it overlaps N + 1; with pierce 0 it removes only the
\* first and leaves; when it overlaps k <= N it removes the k and stays
\* with pierce N - k.
PierceCountsKills ==
    \A k \in 1..Len(ev.blog) :
       ev.blog[k].weak =>
          /\ ev.blog[k].overlap = ev.blog[k].pierce0 + 1 =>
                ev.blog[k].removed = ev.blog[k].overlap /\ ~ev.blog[k].survived
          /\ ev.blog[k].pierce0 = 0 =>
                ev.blog[k].removed = 1 /\ ~ev.blog[k].survived
          /\ ev.blog[k].overlap <= ev.blog[k].pierce0 =>
                /\ ev.blog[k].removed = ev.blog[k].overlap
                /\ ev.blog[k].survived
                /\ ev.blog[k].pierce1 = ev.blog[k].pierce0 - ev.blog[k].overlap

\* A bullet of pierce 1 has gone through two overlapping enemies of hp 1.
PierceSpentOnSecondKill ==
    \E k \in 1..Len(ev.blog) :
       /\ ev.blog[k].weak /\ ev.blog[k].pierce0 = 1 /\ ev.blog[k].overlap = 2
       /\ ev.blog[k].removed = 2 /\ ~ev.blog[k].survived

\* C9: the frame that takes the last life ends in GAME_OVER, and from the
\* assignment of GAME_OVER on nothing of the simulation runs until a restart:
\* the enemies, the score, the coins and the kills are at the end of that
\* frame as they stood at the assignment, and frames in GAME_OVER leave
\* enemies, bullets, score, coins and kills unchanged.
GameOverHaltsSimulation ==
    [][/\ (state = GS_PLAYING /\ lives > 0 /\ lives' <= 0) => state' = GS_GAME_OVER
       /\ ev'.died =>
             /\ enemies' = ev'.deathEnemies /\ score' = ev'.deathScore
             /\ coins' = ev'.deathCoins /\ kills' = ev'.deathKills
       /\ (state = GS_GAME_OVER /\ state' = GS_GAME_OVER) =>
             UNCHANGED <<enemies, bullets, score, coins, kills>>]_vars

(******************************* shop runs ********************************)
\* The largest purse a shop run starts with: it pays the eleven purchases
\* that take the first entry from 25 to 999 and one more at 999.
MaxWallet == 3700

Wallets == {0, 44, MaxWallet}

\* Frames of a shop run; they pass while the shop is open.
MaxLedgerFrames == 1

\* The keys of a shop run: one entry of each starting price (25, 30, 40,
\* 45), a key outside the shop's table, and the restart.
LedgerKeys == {"1", "2", "4", "5", "7", "r"}

\* A run in which w enemies of the plain kind have been shot for one coin
\* each (KillRewards w times over) and the shop has been opened.
WalletInit(w) ==
    /\ state = GS_PLAYING
    /\ running = TRUE
    /\ terminated = FALSE
    /\ shop_open = TRUE
    /\ t = 0
    /\ step = 0
    /\ player = gain_xp(NewPlayer, XP_KILL * w)
    /\ enemies = <<>>
    /\ bullets = <<>>
    /\ powerups = <<>>
    /\ orb = SpawnOrb(BaseDraw)
    /\ score = KILL_SCORE * w
    /\ lives = LIVES_START
    /\ coins = COINS_NORMAL_MIN * w
    /\ kills = w
    /\ high_score = 0
    /\ spawn_timer = 0
    /\ diff_timer = 0
    /\ enemy_speed = ENEMY_BASE_SPEED
    /\ max_enemies = 3
    /\ enemy_level = 0
    /\ boss_timer = BOSS_TIMER_START
    /\ pu_spawn_timer = Uniform(10000, 16000, BaseDraw.u_spawn)
    /\ buffs = [rapid |-> 0, speed |-> 0, spread |-> 0, pierce |-> 0]
    /\ upgrades = <<25, 30, 30, 40, 45, 25>>
    /\ difficulty_idx = 1
    /\ saved = NoSave
    /\ ev = EvNone
    /\ run = [RunNone EXCEPT !.spawned = w]

LedgerInit == \E w \in Wallets : WalletInit(w)

LedgerKey ==
    /\ \E k \in LedgerKeys : KeyDown(k, BaseDraw)
    /\ UNCHANGED step

LedgerFrame ==
    /\ shop_open /\ t < MaxLedgerFrames * 50
    /\ Frame(50, V2(0, 0), BaseDraw)
    /\ UNCHANGED step

NextLedger == LedgerKey \/ LedgerFrame

SpecLedger == LedgerInit /\ [][NextLedger]_vars

\* The values of min(999, int(cost * 1.4) + 1) in double precision along the
\* four chains that start at 25, 30, 40 and 45.
PriceLadders ==
    <<<<25, 36, 51, 72, 101, 142, 199, 279, 391, 548, 768, 999>>,
      <<30, 43, 61, 86, 121, 170, 238, 334, 468, 656, 919, 999>>,
      <<40, 57, 80, 113, 159, 223, 313, 439, 615, 862, 999>>,
      <<45, 63, 89, 125, 176, 247, 346, 485, 680, 952, 999>>>>

\* The step has bought entry i (index i - 1 of the table).
Bought(i) == ev'.op = "key" /\ ev'.buy = "ok" /\ ev'.buyIdx = i - 1

\* C6 (as amended): a purchase at cost c leaves the entry at
\* min(999, int(c * 1.4) + 1), the product truncated and not rounded: the
\* next rung of the ladder c stands on, 999 following 999.
PurchaseClimbsLadder ==
    [][\A i \in 1..Len(upgrades) :
          Bought(i) =>
             \E l \in 1..Len(PriceLadders) : \E n \in 1..Len(PriceLadders[l]) :
                /\ PriceLadders[l][n] = upgrades[i]
                /\ upgrades'[i] = PriceLadders[l][Min(n + 1, Len(PriceLadders[l]))]]_vars

\* The purchase at 72 has left the first entry at 101.
BoughtAtSeventyTwo ==
    ev.op = "key" /\ ev.buy = "ok" /\ ev.buyIdx = 0 /\ ev.buyCost = 72
    /\ upgrades[1] = 101

\* C6 (as claimed): a purchase at cost c leaves the entry at
\* min(999, round(c * 1.4) + 1).
PurchaseRoundsCost ==
    [][\A i \in 1..Len(upgrades) :
          Bought(i) =>
             upgrades'[i] = Min(COST_CEILING, (14 * upgrades[i] + 5) \div 10 + 1)]_vars

\* C7: no step lowers the cost of an entry or takes it above 999, and an
\* entry at 999 stays at 999.
CostsOnlyRiseToCeiling ==
    [][\A i \in 1..Len(upgrades) :
          /\ upgrades'[i] >= upgrades[i]
          /\ upgrades'[i] <= COST_CEILING
          /\ upgrades[i] = COST_CEILING => upgrades'[i] = COST_CEILING]_vars

\* An entry has been bought at 999 and still costs 999.
BoughtAtCeiling ==
    /\ ev.op = "key" /\ ev.buy = "ok" /\ ev.buyCost = COST_CEILING
    /\ upgrades[ev.buyIdx + 1] = COST_CEILING

\* C8: _buy_if_can with an index outside 0..5 returns the purse as it was,
\* and a key of the open shop whose entry costs more than the coins at hand,
\* or that names no entry, changes neither the coins nor a cost nor the
\* player, and leaves the mode and the running flag as they were.
RefusedPurchaseIsNoOp ==
    /\ [](\A idx \in {-2, -1, 6, 7} :
            BuyIfCan([coins |-> coins, player |-> player, upgrades |-> upgrades], idx)
               = [coins |-> coins, player |-> player, upgrades |-> upgrades])
    /\ [][(/\ ev'.op = "key"
            /\ \/ ev'.buyIdx >= 0 /\ coins < upgrades[ev'.buyIdx + 1]
               \/ ev'.buy = "unmapped")
          => UNCHANGED <<coins, upgrades, player, state, running>>]_vars

\* A purchase has been tried with fewer coins than the entry costs.
PurchaseRefused ==
    /\ ev.op = "key" /\ ev.buyIdx >= 0 /\ coins < ev.buyCost
    /\ upgrades[ev.buyIdx + 1] = ev.buyCost

\* The key of entry i is pressed in the open shop with the coins for it.
AskedWithCoins(i, k) ==
    /\ ev'.op = "key" /\ ev'.key = k
    /\ state = GS_PLAYING /\ shop_open /\ coins >= upgrades[i]

MaxSessionFrames == 6

SessionKeys == {"ESC", "SPACE", "s", "p", "b", "r", "1"}

\* Any key at any time, a window-close at any time, and frames of ten
\* seconds with the player pushed to the right.
SessionKey ==
    /\ \E k \in SessionKeys : KeyDown(k, BaseDraw)
    /\ UNCHANGED step

SessionQuit == QuitEvent /\ UNCHANGED step

SessionFrame ==
    /\ t < MaxSessionFrames * 10000
    /\ Frame(10000, V2(1, 0), BaseDraw)
    /\ UNCHANGED step

NextSession == SessionKey \/ SessionQuit \/ SessionFrame

SpecSession == Init /\ [][NextSession]_vars

\* C10: the mode changes only from Title to Playing on the start key, from
\* Playing to GameOver in a frame that leaves no life, from GameOver to
\* Playing on the restart key, from Title to Settings on the settings key,
\* from Settings to Title on the back key and from Playing to Title on the
\* pause key; a window-close, and the back key outside Settings, clear the
\* running flag in any mode, and the frame that follows ends the session.
ModeChangesAreTheSix ==
    [][/\ state' # state =>
             \/ state = GS_TITLE /\ state' = GS_PLAYING
                   /\ ev'.op = "key" /\ ev'.key = "SPACE"
             \/ state = GS_PLAYING /\ state' = GS_GAME_OVER
                   /\ ev'.op = "frame" /\ lives' <= 0
             \/ state = GS_GAME_OVER /\ state' = GS_PLAYING
                   /\ ev'.op = "key" /\ ev'.key = "r"
             \/ state = GS_TITLE /\ state' = GS_SETTINGS
                   /\ ev'.op = "key" /\ ev'.key = "s"
             \/ state = GS_SETTINGS /\ state' = GS_TITLE
                   /\ ev'.op = "key" /\ ev'.key = "ESC"
             \/ state = GS_PLAYING /\ state' = GS_TITLE
                   /\ ev'.op = "key" /\ ev'.key = "p"
       /\ (ev'.op = "quit"
             \/ (ev'.op = "key" /\ ev'.key = "ESC" /\ state # GS_SETTINGS))
            => ~running'
       /\ (~running /\ ev'.op = "frame") => terminated'
       /\ terminated => UNCHANGED vars]_vars

\* A run has been lost and the restart key has put the session back into
\* play.
RestartedAfterGameOver ==
    ev.op = "key" /\ ev.key = "r" /\ ev.prev = GS_GAME_OVER /\ state = GS_PLAYING

\* A key that starts a run: SPACE on the title screen, r in play or after
\* the game is over.
StartCommand ==
    /\ ev'.op = "key"
    /\ \/ state = GS_TITLE /\ ev'.key = "SPACE"
       \/ state \in {GS_PLAYING, GS_GAME_OVER} /\ ev'.key = "r"

\* C16: right after a start or restart command the session is in play with
\* score, coins and kills 0, three lives, no enemies, bullets or power-ups,
\* the shop closed, the buff timers 0, enemy speed 120, the cap 3, the boss
\* countdown 20 s and a new player; high_score is as it was.
RunStartsFresh ==
    [][StartCommand =>
         /\ state' = GS_PLAYING
         /\ score' = 0 /\ coins' = 0 /\ kills' = 0 /\ lives' = LIVES_START
         /\ enemies' = <<>> /\ bullets' = <<>> /\ powerups' = <<>>
         /\ ~shop_open'
         /\ buffs' = [rapid |-> 0, speed |-> 0, spread |-> 0, pierce |-> 0]
         /\ enemy_speed' = ENEMY_BASE_SPEED /\ max_enemies' = 3
         /\ boss_timer' = BOSS_TIMER_START
         /\ player' = NewPlayer
         /\ ~player'.has_shield /\ player'.shield_time = 0
         /\ high_score' = high_score]_vars

\* A run has been started again after a game that set the high score.
RestartKeepsHighScore ==
    /\ ev.op = "key" /\ ev.key = "r" /\ ev.prev = GS_GAME_OVER
    /\ high_score > 0 /\ score = 0 /\ lives = LIVES_START /\ enemies = <<>>

(***************************** shop and play ******************************)
\* Frames of a run in which the shop is opened and closed.
MaxShopFrames == 3

ShopKeys == {"1", "4", "7", "b", "r"}

\* The shop is opened and closed at will, entries are asked for in either
\* state of it, and frames of 850 ms pass with the player pushed to the
\* right.
ShopKey850 ==
    /\ \E k \in ShopKeys : KeyDown(k, BaseDraw)
    /\ UNCHANGED step

ShopFrame850 ==
    /\ t < MaxShopFrames * 850
    /\ Frame(850, V2(1, 0), BaseDraw)
    /\ UNCHANGED step

NextShop == ShopKey850 \/ ShopFrame850

SpecShop == LedgerInit /\ [][NextShop]_vars

\* The fields of the player a frame does not touch while the shop is open.
PlayerStats(p) ==
    [p EXCEPT !.pos = V2(0, 0), !.vel = V2(0, 0), !.iframes = 0,
              !.fire_timer = 0, !.shield_time = 0]

MaxHuntTime == 36000

\* The keys of a player who runs laps along the walls of the arena.
Lap(p) ==
    IF p.x <= 60 /\ p.y > 60 THEN V2(0, -1)
    ELSE IF p.y <= 60 /\ p.x < 840 THEN V2(1, 0)
    ELSE IF p.x >= 840 /\ p.y < 540 THEN V2(0, 1)
    ELSE V2(-1, 0)

\* The coins a kill may pay: random.randint(1, 3) and random.randint(15, 25).
HuntDraws ==
    {[BaseDraw EXCEPT !.coins_normal = c[1], !.coins_boss = c[2]] :
        c \in {<<COINS_NORMAL_MIN, COINS_BOSS_MIN>>, <<2, 21>>,
                <<COINS_NORMAL_MAX, COINS_BOSS_MAX>>}}

HuntKey ==
    /\ state = GS_TITLE
    /\ KeyDown("SPACE", BaseDraw)
    /\ UNCHANGED step

\* Two frames of ten seconds bring the first boss, frames of 100 ms follow.
HuntFrame ==
    /\ state = GS_PLAYING
    /\ t < MaxHuntTime
    /\ \E r \in HuntDraws :
          Frame(IF t < BOSS_TIMER_START THEN 10000 ELSE 100, Lap(player.pos), r)
    /\ UNCHANGED step

NextHunt == HuntKey \/ HuntFrame

SpecHunt == Init /\ [][NextHunt]_vars

\* C12: every kill of a non-boss enemy removes it, adds 1 to kills,
\* KILL_SCORE to the score, 1 to 3 coins and XP_KILL experience; kills grows
\* by the number of kills of the frame and by nothing else.
KillPaysReward ==
    [][ev'.op = "frame" =>
         /\ kills' = kills + Len(ev'.klog)
         /\ \A i \in 1..Len(ev'.klog) :
               ~ev'.klog[i].boss =>
                  /\ ev'.klog[i].gone
                  /\ ev'.klog[i].kills1 = ev'.klog[i].kills0 + 1
                  /\ ev'.klog[i].score1 = ev'.klog[i].score0 + KILL_SCORE
                  /\ ev'.klog[i].coins1 - ev'.klog[i].coins0
                        \in COINS_NORMAL_MIN..COINS_NORMAL_MAX
                  /\ ev'.klog[i].xp1 = ev'.klog[i].xp0 + XP_KILL
                  /\ ev'.klog[i].timer1 = ev'.klog[i].timer0]_vars

\* A non-boss enemy has been killed and has paid the three coins.
EnemyKilledForThree ==
    \E i \in 1..Len(ev.klog) :
        ~ev.klog[i].boss /\ ev.klog[i].coins1 = ev.klog[i].coins0 + COINS_NORMAL_MAX

MaxOrbTime == 1600

\* Where an orb may appear: 40 + 820 * u / 1000 is 482, 515 or 860.
OrbDraws == {[BaseDraw EXCEPT !.u_orb_x = u] : u \in {540, 580, 1000}}

OrbKey ==
    /\ state = GS_TITLE
    /\ \E r \in OrbDraws : KeyDown("SPACE", r)
    /\ UNCHANGED step

\* The player walks to the right; a run has frames of 40 ms or of 80 ms.
OrbFrame ==
    /\ state = GS_PLAYING
    /\ t < MaxOrbTime
    /\ \E dt \in {40, 80}, r \in OrbDraws :
          /\ run.maxdt \in {0, dt}
          /\ Frame(dt, V2(1, 0), r)
    /\ UNCHANGED step

NextOrb == OrbKey \/ OrbFrame

SpecOrb == Init /\ [][NextOrb]_vars

\* Score and experience paid by the kills of a frame.
RECURSIVE KillScore(_, _)
KillScore(log, i) ==
    IF i > Len(log) THEN 0 ELSE (log[i].score1 - log[i].score0) + KillScore(log, i + 1)

RECURSIVE KillXp(_, _)
KillXp(log, i) ==
    IF i > Len(log) THEN 0 ELSE (log[i].xp1 - log[i].xp0) + KillXp(log, i + 1)

OrbInArena ==
    /\ orb.radius = ORB_RADIUS
    /\ orb.pos.x \in 40..(WIDTH - 40)
    /\ orb.pos.y \in 40..(HEIGHT - 40)

ThreeOrbsNoKills == run.orbs = 3 /\ kills = 0

\* C14 as stated: from a fresh run, three pickups with no kills make the
\* score exactly 3 * ORB_SCORE and the experience 3 * XP_ORB.
ThreeOrbsScoreThirty ==
    ThreeOrbsNoKills => (score = 3 * ORB_SCORE /\ TotalXp(player) = 3 * XP_ORB)

\* C14: there is one orb, inside the arena, in every state; a frame of play
\* picks it up exactly when the moved player overlaps it, the pickup adds
\* ORB_SCORE to the score beside the kill rewards and the passive tick
\* int(20 * dt) of the frame, adds XP_ORB experience, and puts a new orb in
\* the arena; three pickups with no kills in a run whose frames are all
\* shorter than 50 ms make the score 30 and the experience 15.
OrbPickupPays ==
    /\ [](OrbInArena /\ (ThreeOrbsNoKills /\ run.maxdt < 50 =>
                            score = 3 * ORB_SCORE /\ TotalXp(player) = 3 * XP_ORB))
    /\ [][(ev'.op = "frame" /\ state = GS_PLAYING /\ ~shop_open) =>
            /\ ev'.orbs = (IF circle_collision(player'.pos, player'.radius,
                                               orb.pos, orb.radius) THEN 1 ELSE 0)
            /\ run'.orbs = run.orbs + ev'.orbs
            /\ score' = score + ORB_SCORE * ev'.orbs + KillScore(ev'.klog, 1)
                          + ((20 * (t' - t)) \div 1000)
            /\ TotalXp(player') = TotalXp(player) + XP_ORB * ev'.orbs
                                    + KillXp(ev'.klog, 1)
            /\ ev'.orbs = 0 => orb' = orb]_vars

\* The third orb of a run of 40 ms frames has been picked up before any kill.
ThirdOrbPickedUp ==
    ThreeOrbsNoKills /\ ev.orbs = 1 /\ run.maxdt = 40 /\ score = 3 * ORB_SCORE

(**************************** the high score ******************************)
\* Frames of one launch of the program.
MaxLaunchFrames == 8

SaveKeys == {"ESC", "SPACE", "s", "r"}

SaveKey ==
    /\ \E k \in SaveKeys : KeyDown(k, BaseDraw)
    /\ UNCHANGED step

SaveFrame ==
    /\ t < MaxLaunchFrames * 10000
    /\ Frame(10000, V2(1, 0), BaseDraw)
    /\ UNCHANGED step

SaveStartup == Startup /\ UNCHANGED step

NextSave == SaveKey \/ SaveFrame \/ SaveStartup

SpecSave == Init /\ [][NextSave]_vars

GameOverFrame == ev'.op = "frame" /\ state = GS_GAME_OVER

MaxSwarmTime == 23000

\* The side of the screen an enemy comes from.
SwarmDraws == {[BaseDraw EXCEPT !.side = sd] : sd \in {"left", "top"}}

SwarmKey ==
    /\ state = GS_TITLE
    /\ KeyDown("SPACE", BaseDraw)
    /\ UNCHANGED step

\* Frames of 250 ms, each long enough for the spawn countdown to run out,
\* with one stall of 16 s, after four seconds, that brings the boss.
SwarmFrame ==
    /\ state = GS_PLAYING
    /\ t < MaxSwarmTime
    /\ \E r \in (IF t < 2000 THEN SwarmDraws ELSE {BaseDraw}) :
          Frame(IF t = 4000 THEN 16000 ELSE 250, V2(0, 0), r)
    /\ UNCHANGED step

NextSwarm == SwarmKey \/ SwarmFrame

SpecSwarm == Init /\ [][NextSwarm]_vars

RECURSIVE NonBossCount(_, _)
NonBossCount(es, i) ==
    IF i > Len(es) THEN 0
    ELSE (IF es[i].is_boss THEN 0 ELSE 1) + NonBossCount(es, i + 1)

\* C18: the spawn logic adds an enemy only when no boss is alive, the spawn
\* countdown has run down to 0 or less and there are fewer enemies than the
\* cap; there are never more non-boss enemies than the cap, and never more
\* enemies than cap + 1, which is at most ENEMY_MAX + 1.
SpawnRespectsCap ==
    /\ [](/\ NonBossCount(enemies, 1) <= max_enemies
          /\ Len(enemies) <= max_enemies + 1
          /\ max_enemies + 1 <= ENEMY_MAX + 1
          /\ ev.spawn.made =>
                (~ev.spawn.boss0 /\ ev.spawn.timer <= 0
                   /\ ev.spawn.count0 < ev.spawn.cap0))
    /\ [][ev'.op = "frame" =>
            NonBossCount(enemies', 1) <= NonBossCount(enemies, 1)
                                           + (IF ev'.spawn.made THEN 1 ELSE 0)]_vars

\* The spawn countdown had run out and no boss was alive, but the enemies
\* were as many as the cap: none was added.
SpawnHeldByCap ==
    /\ ev.op = "frame" /\ ~ev.spawn.made /\ ev.spawn.timer <= 0 /\ ~ev.spawn.boss0
    /\ ev.spawn.count0 = ev.spawn.cap0 /\ ev.spawn.cap0 = 3

(******************************** the ramp ********************************)
\* Milliseconds of a session long enough for the ramp to reach its caps.
MaxRampTime == 506000

\* SPACE starts the first run, r starts another at any time.
RampKey ==
    /\ \/ state = GS_TITLE /\ KeyDown("SPACE", BaseDraw)
       \/ state = GS_PLAYING /\ KeyDown("r", BaseDraw)
    /\ UNCHANGED step

\* Four frames of 1.5 s, then stalls of 10 s; the player stands still.
RampFrame ==
    /\ state = GS_PLAYING
    /\ t < MaxRampTime
    /\ Frame(IF t < 6000 THEN 1500 ELSE 10000, V2(0, 0), BaseDraw)
    /\ UNCHANGED step

NextRamp == RampKey \/ RampFrame

SpecRamp == Init /\ [][NextRamp]_vars

\* C19: enemy speed stays within 120..260 and the cap within 3..ENEMY_MAX;
\* a simulated frame that brings the ramp timer to 2 s or more is a tick: it
\* adds 6 to the speed, up to 260, and 1 to the cap, up to ENEMY_MAX, and
\* zeroes the timer; every other simulated frame adds its time to the timer
\* and leaves both alone; and no step but the start of a run lowers either.
RampIsMonotoneAndBounded ==
    /\ [](/\ enemy_speed \in ENEMY_BASE_SPEED..260
          /\ max_enemies \in 3..ENEMY_MAX)
    /\ [][/\ (ev'.op = "frame" /\ state = GS_PLAYING /\ ~shop_open) =>
               IF diff_timer + (t' - t) >= 2000
               THEN /\ enemy_speed' = Min(enemy_speed + 6, 260)
                    /\ max_enemies' = Min(max_enemies + 1, ENEMY_MAX)
                    /\ diff_timer' = 0
               ELSE /\ UNCHANGED <<enemy_speed, max_enemies>>
                    /\ diff_timer' = diff_timer + (t' - t)
          /\ ~StartCommand =>
               (enemy_speed' >= enemy_speed /\ max_enemies' >= max_enemies)]_vars

\* A tick has found the speed at 260 and the cap at ENEMY_MAX and has left
\* them there.
RampAtItsCaps ==
    /\ ev.op = "frame" /\ state = GS_PLAYING /\ diff_timer = 0
    /\ enemy_speed = 260 /\ max_enemies = ENEMY_MAX
    /\ t - run.t0 > 480000

(******************************* the clock ********************************)
\* Milliseconds of a session that waits on the title screen before it plays.
MaxClockTime == 36000

\* random.randint(0, self.enemy_level): the tier is r.tier % (level + 1).
ClockDraws == {[BaseDraw EXCEPT !.tier = ti] : ti \in {0, 1}}

ClockKey ==
    /\ \/ state = GS_TITLE /\ KeyDown("SPACE", BaseDraw)
       \/ state = GS_PLAYING /\ KeyDown("r", BaseDraw)
    /\ UNCHANGED step

\* Stalls of 10 s on the title screen, frames of 500 ms in play.
ClockFrame ==
    /\ state \in {GS_TITLE, GS_PLAYING}
    /\ t < MaxClockTime
    /\ \E r \in ClockDraws :
          Frame(IF state = GS_TITLE THEN 10000 ELSE 500, V2(0, 0), r)
    /\ UNCHANGED step

NextClock == ClockKey \/ ClockFrame

SpecClock == Init /\ [][NextClock]_vars

\* C20: in the first 30 s of a run, counted from its start or restart, the
\* tier ceiling is 0 and every non-boss enemy has tier 0 and 1 hp.
RunClockStartsAtZero ==
    (state = GS_PLAYING /\ t - run.t0 < 30000) =>
        /\ enemy_level = 0
        /\ \A i \in 1..Len(enemies) :
              ~enemies[i].is_boss => (enemies[i].tier = 0 /\ enemies[i].hp = 1)

(************************ the ledger across runs **************************)
\* The costs of the upgrades table as Game.__init__ writes them.
StartingCosts == <<25, 30, 30, 40, 45, 25>>

\* C21: after every start or restart each of the six entries of the ledger
\* has its starting cost again, as the player has its base stats and the
\* coins are 0.
RestartResetsLedger ==
    [][StartCommand =>
         (upgrades' = StartingCosts /\ player' = NewPlayer /\ coins' = 0)]_vars

(****************************** the volley ********************************)
\* The last frame of play ends by this time (ms).
MaxVolleyTime == 10600

\* The coins of a run of volleys: two of Damage, two of Spread and three of
\* Pierce can be paid for (61 + 97 + 197).
MaxVolleyWallet == 355

\* The keys of a run of volleys: Damage, Spread and Pierce are bought before
\* play begins, and b closes the shop.
VolleyKeys == {"1", "4", "5", "b"}

VolleyKey ==
    /\ t = 0
    /\ \E k \in VolleyKeys : KeyDown(k, BaseDraw)
    /\ UNCHANGED step

\* The power-up that the timer brings is of any of the three kinds that act
\* on the volley, and it lands on the player.
VolleyDraws == {[BaseDraw EXCEPT !.pu_kind = k] : k \in {PU_RAPID, PU_SPREAD, PU_PIERCE}}

\* One long frame that ends 50 ms before the power-up is due, then frames of
\* 50 ms; with the shop left open, one frame of 50 ms.
VolleyFrame ==
    /\ t < MaxVolleyTime
    /\ shop_open => t = 0
    /\ \E r \in VolleyDraws :
          Frame(IF t = 0 /\ ~shop_open THEN pu_spawn_timer - 50 ELSE 50,
                V2(0, 0), r)
    /\ UNCHANGED step

NextVolley == VolleyKey \/ VolleyFrame

SpecVolley == WalletInit(MaxVolleyWallet) /\ [][NextVolley]_vars

\* The bullets a volley holds by the spread that is in force.
VolleySize(s) ==
    IF s.spread_level = 2 THEN 5
    ELSE IF s.spread_level = 1 \/ s.spread > 0 THEN 3 ELSE 1

VolleyOfThreeByBuff ==
    /\ Len(ev.shot.made) = 3 /\ ev.shot.spread_level = 0 /\ ev.shot.spread > 0

VolleyOfOne == Len(ev.shot.made) = 1 /\ ev.shot.asked

VolleyHeldByTimer ==
    ev.shot.asked /\ ev.shot.timer0 > 0 /\ ev.shot.enemies0 > 0

VolleyHeldForNoEnemy ==
    ev.shot.asked /\ ev.shot.timer0 = 0 /\ ev.shot.enemies0 = 0

\* C23: every bullet of a volley has the pierce of the source in force: 1
\* while the Pierce buff runs, whatever pierce has been bought (2 and 3
\* included), and the bought pierce otherwise.
PierceFromActiveSource ==
    \A i \in 1..Len(ev.shot.made) :
       ev.shot.made[i].pierce =
          IF ev.shot.pierce_time > 0 THEN PIERCE_BUFF ELSE ev.shot.pierce

\* A volley under the Pierce buff by a player who has bought pierce 3.
BuffOverridesBoughtPierce ==
    /\ Len(ev.shot.made) > 0 /\ ev.shot.pierce_time > 0 /\ ev.shot.pierce = 3
    /\ ev.shot.made[1].pierce = 1

(****************************** the cadence *******************************)
\* The last frame of a run of Fire Rate purchases ends by this time (ms).
MaxCadenceTime == 10400

\* The coins of such a run: fourteen purchases of Fire Rate and one more
\* (3126 + 4 * 999).
MaxCadenceWallet == 7122

CadenceKeys == {"2", "b"}

CadenceKey ==
    /\ t = 0
    /\ \E k \in CadenceKeys : KeyDown(k, BaseDraw)
    /\ UNCHANGED step

CadenceDraws == {[BaseDraw EXCEPT !.pu_kind = k] : k \in {PU_RAPID, PU_SPEED}}

\* The frames of a run of volleys.
CadenceFrame ==
    /\ t < MaxCadenceTime
    /\ shop_open => t = 0
    /\ \E r \in CadenceDraws :
          Frame(IF t = 0 /\ ~shop_open THEN pu_spawn_timer - 50 ELSE 50,
                V2(0, 0), r)
    /\ UNCHANGED step

NextCadence == CadenceKey \/ CadenceFrame

SpecCadence == WalletInit(MaxCadenceWallet) /\ [][NextCadence]_vars

\* The fire timer a volley leaves, the Rapid buff taking the cooldown to
\* pct hundredths of itself.
Rearmed(s, pct) ==
    Max(FIRE_TIMER_MIN, IF s.rapid > 0 THEN (s.cooldown * pct) \div 100 ELSE s.cooldown)

\* C24 as stated: the Rapid buff halves the cooldown.
RapidHalvesCooldown ==
    /\ Len(ev.shot.made) > 0 => ev.shot.timer1 = Rearmed(ev.shot, 50)
    /\ player.fire_cooldown >= FIRE_TIMER_MIN

\* C24 (as amended): a volley re-arms the fire timer to the greater of 0.08 s
\* and the effective cooldown, which is the player's fire cooldown, taken to
\* 0.45 of itself while the Rapid buff runs; the bought fire cooldown is
\* never under 0.08 s, however many times Fire Rate is bought.
RearmIsFlooredCooldown ==
    /\ Len(ev.shot.made) > 0 => ev.shot.timer1 = Rearmed(ev.shot, RAPID_PERCENT)
    /\ player.fire_cooldown >= FIRE_TIMER_MIN

\* A volley under Rapid by a player who has bought Fire Rate fifteen times,
\* the last time with the cooldown at the floor already.
RapidVolleyAtFloor ==
    /\ Len(ev.shot.made) > 0 /\ ev.shot.rapid > 0
    /\ ev.shot.cooldown = FIRE_TIMER_MIN /\ ev.shot.timer1 = FIRE_TIMER_MIN
    /\ upgrades[2] = COST_CEILING /\ coins = 0

(******************************* the shield *******************************)
\* C25: the shield charge is within 0..POWERUP_DURATION and is above 0 only
\* with has_shield set; a player who has neither bought the Shield nor picked
\* up a Shield power-up in the current run has charge 0 and absorbs no hit;
\* a hit is absorbed only at full charge and leaves the charge at 0.
ShieldIsEarnedAndFull ==
    /\ 0 <= player.shield_time /\ player.shield_time <= POWERUP_DURATION
    /\ player.shield_time > 0 => player.has_shield
    /\ ~run.shield => (player.shield_time = 0 /\ ~player.has_shield
                          /\ ev.hit # "shield")
    /\ ev.hit = "shield" => (ev.hitShield0 = POWERUP_DURATION /\ ev.hitShield1 = 0)

\* A hit absorbed at full charge by a player who picked the shield up.
HitAbsorbedAtFullCharge ==
    /\ ev.hit = "shield" /\ run.shield /\ ev.hitShield0 = POWERUP_DURATION
    /\ player.shield_time = 0 /\ lives = ev.hitLives0

\* A hit that takes a life while the shield is recharging.
HitWhileRecharging ==
    /\ ev.hit = "life" /\ run.shield
    /\ 0 < ev.hitShield0 /\ ev.hitShield0 < POWERUP_DURATION

\* A hit on a player who has had no shield in the run.
HitWithoutShield == ev.hit = "life" /\ ~run.shield

(***************************** hits in a frame ****************************)
\* The enemy bullets of bs that lie on the player p.
BulletsOnPlayer(bs, p) ==
    {j \in 1..Len(bs) : /\ bs[j].from_enemy
                        /\ circle_collision(bs[j].pos, bs[j].radius, p.pos, p.radius)}

\* C26: a frame applies at most one hit to the player: the lives go down by
\* at most 1, a frame that empties the shield takes no life and a frame that
\* takes a life leaves the shield's charge alone, and a frame in which the
\* iframes are still above 0 after the player's timers have been updated
\* applies no hit, every live enemy bullet staying in the collection, those
\* on the player included.
OneHitPerFrame ==
    [][ev'.op = "frame" =>
         /\ ev'.hits <= 1
         /\ lives' >= lives - 1
         /\ ev'.hits = 0 => lives' = lives
         /\ ev'.hit = "shield" => (lives' = lives /\ ev'.hitShield1 = 0)
         /\ ev'.hit = "life" =>
               (lives' = lives - 1 /\ ev'.hitShield1 = ev'.hitShield0)
         /\ (state = GS_PLAYING /\ ~shop_open /\ player.iframes > t' - t) =>
               /\ ev'.hits = 0
               /\ \A i \in 1..Len(bullets) :
                     (/\ bullets[i].from_enemy
                      /\ BulletAlive(BulletMove(bullets[i], t' - t, player'.pos)))
                     => \E j \in 1..Len(bullets') :
                           bullets'[j] = BulletMove(bullets[i], t' - t, player'.pos)]_vars

\* A frame with the iframes still running at its end, no hit, and an enemy
\* bullet lying on the player.
BulletPassesDuringIframes ==
    /\ ev.op = "frame" /\ ev.prev = GS_PLAYING /\ ev.hits = 0
    /\ player.iframes > 0 /\ BulletsOnPlayer(bullets, player) # {}

\* A frame in which an enemy bullet has hit the player and an enemy's body
\* lies on the player as well.
BulletHitWithBodyOnPlayer ==
    /\ ev.op = "frame" /\ ev.hits = 1 /\ ev.hitSrc = "bullet"
    /\ FirstColliding(enemies, player, 1) > 0

(**************************** lives and the mode ***************************)
\* C27: in every state between frames the lives are within 0..LIVES_START,
\* and the mode is GameOver exactly when the lives are 0, so that no frame of
\* play starts with no life left.
LivesMatchMode ==
    /\ 0 <= lives /\ lives <= LIVES_START
    /\ (state = GS_GAME_OVER) <=> (lives = 0)
    /\ state = GS_PLAYING => lives >= 1

\* The frame that takes the last life.
LastLifeLost ==
    /\ ev.op = "frame" /\ ev.prev = GS_PLAYING /\ ev.died
    /\ state = GS_GAME_OVER /\ lives = 0 /\ ev.hitLives0 = 1

\* A run restarted from GameOver, with all its lives.
RunRestartedWithLives ==
    ev.op = "key" /\ ev.prev = GS_GAME_OVER /\ state = GS_PLAYING /\ lives = LIVES_START

(******************************* the purse ********************************)
\* The keys of a hunter who goes to the shop: the shop, Damage, Shield and
\* the restart.
PurseKeys == {"b", "1", "6", "r"}

\* The hunter turns to the keys in the last 700 ms of the hunt.
PurseKey ==
    /\ state # GS_TITLE
    /\ t >= MaxHuntTime - 700
    /\ \E k \in PurseKeys : KeyDown(k, BaseDraw)
    /\ UNCHANGED step

NextPurse == HuntKey \/ PurseKey \/ HuntFrame

SpecPurse == Init /\ [][NextPurse]_vars

\* The rewards of the kills of a step, one after the other, lead from c0 to
\* c1, each of them adding coins.
PaidByKills(log, c0, c1) ==
    /\ Len(log) > 0
    /\ log[1].coins0 = c0 /\ log[Len(log)].coins1 = c1
    /\ \A i \in 1..Len(log) :
          /\ log[i].gone /\ log[i].coins1 > log[i].coins0
          /\ i < Len(log) => log[i + 1].coins0 = log[i].coins1

\* C28: the coins are never negative, and they change only by the rewards of
\* kills, which add to them, by a purchase that is made, which takes the
\* entry's cost, a cost within the balance, and by a reset, which leaves 0.
CoinsChangeByThree ==
    /\ [](coins >= 0)
    /\ [][coins' # coins =>
            \/ /\ ev'.op = "frame" /\ coins' > coins
               /\ PaidByKills(ev'.klog, coins, coins')
            \/ /\ ev'.op = "key" /\ ev'.buy = "ok" /\ shop_open
               /\ ev'.buyCost = upgrades[ev'.buyIdx + 1]
               /\ ev'.buyCost <= coins /\ coins' = coins - ev'.buyCost
            \/ /\ ev'.op = "key" /\ StartCommand /\ coins' = 0]_vars

\* Coins paid by kills have bought an entry and the run is then restarted
\* with coins still in the purse.
PurseEmptiedByRestart ==
    /\ ev.op = "key" /\ ev.key = "r" /\ coins = 0 /\ ev.prev = GS_PLAYING
    /\ upgrades # StartingCosts

\* A purchase paid with coins from kills.
PaidFromKills ==
    /\ ev.op = "key" /\ ev.buy = "ok" /\ coins >= 0 /\ kills > 0
    /\ coins < kills * COINS_NORMAL_MAX + COINS_BOSS_MAX

(************************** the enemies of a run ***************************)
\* C29: within a run an enemy leaves the live collection only when a player
\* bullet has taken its hp to 0 or below, and every such removal adds exactly
\* 1 to kills: in every state the enemies spawned since the last reset are
\* the live enemies and the kills.
EnemiesLeaveByKills ==
    /\ [](run.spawned = Len(enemies) + kills)
    /\ [][/\ ev'.op = "frame" =>
               /\ kills' = kills + Len(ev'.klog)
               /\ Len(enemies') =
                     Len(enemies) - Len(ev'.klog) + (run'.spawned - run.spawned)
               /\ \A i \in 1..Len(ev'.klog) :
                     /\ ev'.klog[i].gone
                     /\ ev'.klog[i].kills1 = ev'.klog[i].kills0 + 1
          /\ (ev'.op = "key" /\ ~StartCommand) => UNCHANGED <<enemies, kills>>
          /\ (ev'.op = "key" /\ StartCommand) =>
                (enemies' = <<>> /\ kills' = 0 /\ run'.spawned = 0)]_vars

\* A frame in which an enemy is shot dead while another one is alive, in a
\* run in which the player has been hit.
KillBesideLiveEnemy ==
    /\ ev.op = "frame" /\ Len(ev.klog) >= 1 /\ Len(enemies) >= 1
    /\ kills >= 2 /\ lives < LIVES_START

\* A frame in which an enemy's body hits the player and stays alive.
BodyHitLeavesEnemy ==
    /\ ev.op = "frame" /\ ev.hitSrc = "body" /\ Len(ev.klog) = 0
    /\ FirstColliding(enemies, player, 1) > 0

NoDup(seq) == \A i, j \in 1..Len(seq) : i # j => seq[i] # seq[j]

\* The hits of a bullet made with pierce n that has struck the enemies of
\* struck and has pierce p left: every hit has taken 1 from the pierce, or,
\* for a bullet that is consumed, the last one found the pierce at 0.
HitsWithinPierce(n, struck, p, consumed) ==
    /\ p >= 0
    /\ Len(struck) <= n + 1
    /\ IF consumed THEN p = 0 /\ Len(struck) = n + 1
                   ELSE p = n - Len(struck)

\* The last frame of a hunt with bought pierce begins before this time (ms).
MaxLanceTime == 26000

\* The coins of a hunter who buys Pierce three times (45 + 63 + 89).
MaxLanceWallet == 197

LanceKeys == {"5", "b"}

\* Pierce is bought before the hunt begins, and b closes the shop.
LanceKey ==
    /\ t = 0
    /\ \E k \in LanceKeys : KeyDown(k, BaseDraw)
    /\ UNCHANGED step

\* Two frames of ten seconds bring the first boss, frames of 50 ms follow;
\* with the shop left open, one frame.
LanceFrame ==
    /\ state = GS_PLAYING
    /\ t < MaxLanceTime
    /\ shop_open => t = 0
    /\ \E r \in HuntDraws :
          Frame(IF t < BOSS_TIMER_START THEN 10000 ELSE 50, Lap(player.pos), r)
    /\ UNCHANGED step

NextLance == LanceKey \/ LanceFrame

SpecLance == WalletInit(MaxLanceWallet) /\ [][NextLance]_vars

\* The part of C31 about the number of hits: a player bullet, live or just
\* resolved, has struck within its pierce.
PierceBoundsHits ==
    /\ \A i \in 1..Len(bullets) :
          ~bullets[i].from_enemy =>
             HitsWithinPierce(bullets[i].pierce0, bullets[i].struck,
                              bullets[i].pierce, FALSE)
    /\ \A k \in 1..Len(ev.blog) :
          HitsWithinPierce(ev.blog[k].made, ev.blog[k].struck,
                           ev.blog[k].pierce1, ~ev.blog[k].survived)

\* C31: over its whole life a player bullet made with pierce N applies damage
\* at most N + 1 times, never twice to the same enemy; each hit takes 1 from
\* the remaining pierce or consumes the bullet, and the remaining pierce is
\* never below 0.
PierceHitsDistinctEnemies ==
    /\ PierceBoundsHits
    /\ \A i \in 1..Len(bullets) : NoDup(bullets[i].struck)
    /\ \A k \in 1..Len(ev.blog) : NoDup(ev.blog[k].struck)

(************************ the record at startup ***************************)
\* Frames of one launch of the program.
MaxRecordFrames == 6

\* The record absent, or present with a text that json.loads or int()
\* rejects.
NoRecord == {NoSave, [NoSave EXCEPT !.exists = TRUE]}

\* Difficulty values of a record that parses: no such key, or a whole number
\* from -7 to 7.
RecordDifficulties ==
    {[digits |-> <<>>, negative |-> FALSE]}
       \cup {[digits |-> <<d>>, negative |-> FALSE] : d \in {0, 1, 2, 3, 7}}
       \cup {[digits |-> <<d>>, negative |-> TRUE] : d \in {1, 3, 4, 7}}

\* What the program may find at SAVE_PATH when it is started.
Records ==
    NoRecord
       \cup {[exists |-> TRUE, parses |-> TRUE, high_score |-> hs,
              difficulty |-> d.digits, negative |-> d.negative] :
                hs \in {<<>>, <<4, 0>>}, d \in RecordDifficulties}

\* The program has not been started yet; any record may lie at SAVE_PATH.
RecordInit ==
    /\ state = GS_TITLE
    /\ running = FALSE
    /\ terminated = TRUE
    /\ shop_open = FALSE
    /\ t = 0
    /\ player = NewPlayer
    /\ enemies = <<>>
    /\ bullets = <<>>
    /\ powerups = <<>>
    /\ orb = SpawnOrb(BaseDraw)
    /\ score = 0
    /\ lives = LIVES_START
    /\ coins = 0
    /\ kills = 0
    /\ high_score = 0
    /\ spawn_timer = 0
    /\ diff_timer = 0
    /\ enemy_speed = ENEMY_BASE_SPEED
    /\ max_enemies = 3
    /\ enemy_level = 0
    /\ boss_timer = BOSS_TIMER_START
    /\ pu_spawn_timer = Uniform(10000, 16000, BaseDraw.u_spawn)
    /\ buffs = [rapid |-> 0, speed |-> 0, spread |-> 0, pierce |-> 0]
    /\ upgrades = <<25, 30, 30, 40, 45, 25>>
    /\ difficulty_idx = 1
    /\ saved \in Records
    /\ step = 0
    /\ ev = EvNone
    /\ run = RunNone

RecordKeys == {"ESC", "SPACE", "s", "p"}

RecordKey ==
    /\ \E k \in RecordKeys : KeyDown(k, BaseDraw)
    /\ UNCHANGED step

RecordFrame ==
    /\ t < MaxRecordFrames * 1000
    /\ Frame(1000, V2(0, 0), BaseDraw)
    /\ UNCHANGED step

RecordStartup == Startup /\ UNCHANGED step

NextRecord == RecordStartup \/ RecordKey \/ RecordFrame

SpecRecord == RecordInit /\ [][NextRecord]_vars

\* A record that is absent or that does not parse leaves the defaults.
BadRecordGivesDefaults ==
    (ev.op = "startup" /\ saved \in NoRecord) => (difficulty_idx = 1 /\ high_score = 0)

\* The spawn logic has looked up the multiplier of a difficulty index that
\* the list does not have, and the program has ended.
RaisedAtSpawn == ev.raised /\ ev.prev = GS_PLAYING /\ terminated

\* A record with the difficulty -1 has been loaded: the look-ups by the
\* index count from the end of the list.
NegativeIndexInPlay == difficulty_idx = -1 /\ state = GS_PLAYING /\ enemies # <<>>

\* C32: whatever the record holds, the difficulty index of a running program
\* is one of 0, 1, 2, a record that is absent or does not parse leaves the
\* index 1, and the spawn logic never looks up an index the list of
\* multipliers does not have.
DifficultyIndexValid ==
    /\ ~terminated => difficulty_idx \in 0 .. 2
    /\ (ev.op = "startup" /\ saved \in NoRecord) => difficulty_idx = 1
    /\ ~(ev.raised /\ ev.prev = GS_PLAYING)

(*************************** the boss schedule ****************************)
\* Milliseconds of a session in which bosses come and go.
MaxScheduleTime == 64000

\* The longest frame of the session.
ScheduleStall == 30000

\* The last moment from which the session is long enough for the longest
\* countdown (28 s) to run out: every frame that starts before the countdown
\* has run out starts before MaxScheduleTime.
ScheduleHorizon == MaxScheduleTime - 28000

\* The run is started from the title screen; the shop is opened or closed
\* ten or twenty seconds into the session, and the run may be restarted
\* thirty seconds into it.
ScheduleKey ==
    /\ \/ state = GS_TITLE /\ KeyDown("SPACE", BaseDraw)
       \/ state = GS_PLAYING /\ t \in {10000, 20000} /\ KeyDown("b", BaseDraw)
       \/ state = GS_PLAYING /\ t = 30000 /\ run.t0 = 0 /\ KeyDown("r", BaseDraw)
    /\ UNCHANGED step

\* Frames of ten seconds until the first boss of a run, frames of 100 ms
\* while a boss is alive, and the longest frame after a boss has gone; the
\* session is followed up to the second boss of a run.
ScheduleDt ==
    IF HasBoss(enemies) THEN 100 ELSE IF run.bosses = 0 THEN 10000 ELSE ScheduleStall

ScheduleGoesOn == ~terminated /\ t < MaxScheduleTime /\ run.bosses < 2

ScheduleFrame ==
    /\ ScheduleGoesOn
    /\ Frame(ScheduleDt, Lap(player.pos), BaseDraw)
    /\ UNCHANGED step

NextSchedule == ScheduleKey \/ ScheduleFrame

SpecSchedule == Init /\ [][NextSchedule]_vars

\* "self.t += dt" of an iteration of the session: the step of ScheduleFrame
\* as the clock shows it.
ScheduleTick == ScheduleGoesOn /\ t' = t + ScheduleDt

\* "while self.running:" starts the next iteration as long as the program
\* runs: the clock does not stop while the session goes on.
FairSchedule == SpecSchedule /\ WF_t(ScheduleTick)

UnfrozenPlay == state = GS_PLAYING /\ ~shop_open

\* C33: in play with the shop closed, whenever no boss is alive a boss is
\* spawned later on, unless the mode leaves Playing or the shop is opened
\* first; with no boss alive the countdown is above 0 and at most 28 s, never
\* at the sentinel; and the first boss of a run has been spawned exactly when
\* the run has 20 s of play with the shop closed.
BossComesBack ==
    /\ (UnfrozenPlay /\ ~HasBoss(enemies) /\ t <= ScheduleHorizon)
          ~> (HasBoss(enemies) \/ ~UnfrozenPlay)
    /\ [](~HasBoss(enemies) => boss_timer \in 1 .. 28000)
    /\ [](run.bosses = 0 => boss_timer = BOSS_TIMER_START - run.play)
    /\ [](run.bosses > 0 <=> run.play >= BOSS_TIMER_START)

\* The second boss of a run has been spawned, by the countdown that the kill
\* of the first one set.
SecondBossSpawned == ev.bossSpawned /\ run.bosses = 2 /\ state = GS_PLAYING

====
